---- MODULE Spec2Model ----
(***************************************************************************)
(* Storage routing core of commissaire-service.                            *)
(*                                                                         *)
(*   manager : one StoreHandlerManager (storage/storehandlermanager.py)    *)
(*   service : one StorageService      (storage/__init__.py)               *)
(*   result  : what the last call took and gave back, and the registry as  *)
(*             the call found it (before)                                  *)
(*   inflight: the _get_handler calls in flight on the manager, each with  *)
(*             its position in the method and its locals                   *)
(*   bus     : one CommissaireService (service/__init__.py): the message   *)
(*             it was handed and what on_message did with it               *)
(*   watcher : one WatcherService (watcher/__init__.py)                    *)
(*   pool    : one ServiceManager (service/__init__.py) and its workers    *)
(*   job     : one run of ClusterExecService._execute                      *)
(*             (clusterexec/__init__.py)                                   *)
(*                                                                         *)
(* Strings that the code trims, compares or formats (handler names, Host   *)
(* sources, module names) are sequences of one-character strings, so that  *)
(* str.strip() and '{}-{}'.format() are computed, not assumed.             *)
(***************************************************************************)
EXTENDS Integers, Sequences, FiniteSets, TLC

VARIABLES manager, service, result, inflight, bus, watcher, pool, job

vars == <<manager, service, result, inflight, bus, watcher, pool, job>>

\* the parts outside the storage routing core
peers == <<inflight, bus, watcher, pool, job>>

\* no call in flight and the other services not started
PeersIdle ==
    /\ inflight = <<>>
    /\ bus = <<>>
    /\ watcher = <<>>
    /\ pool = <<>>
    /\ job = <<>>

-----------------------------------------------------------------------------
(* Bounds of the model *)

\* how many definitions one registry holds before register is no longer tried
MaxDefs == 2
\* how many handler instances one registry constructs
MaxMade == 3
\* longest list given to a list-form save, get or delete
MaxList == 2

-----------------------------------------------------------------------------
(* Strings *)

Whitespace == {" "}

RECURSIVE lstrip(_)
lstrip(s) == IF s # <<>> /\ Head(s) \in Whitespace THEN lstrip(Tail(s)) ELSE s

RECURSIVE rstrip(_)
rstrip(s) ==
    IF s # <<>> /\ s[Len(s)] \in Whitespace
    THEN rstrip(SubSeq(s, 1, Len(s) - 1))
    ELSE s

\* str.strip()
strip(s) == rstrip(lstrip(s))

DigitChar == <<"0", "1", "2", "3", "4", "5", "6", "7", "8", "9">>

\* str(n) of a natural number, in decimal
RECURSIVE IntToStr(_)
IntToStr(n) ==
    IF n < 10
    THEN <<DigitChar[n + 1]>>
    ELSE IntToStr(n \div 10) \o <<DigitChar[(n % 10) + 1]>>

\* '{}-{}'.format(module, suffix)
FormatName(module, suffix) == module \o <<"-">> \o IntToStr(suffix)

-----------------------------------------------------------------------------
(* Dictionaries: a dict is a function whose DOMAIN is its key set *)

EmptyDict == <<>>

\* dict.get(key), None being rendered as the value none
NoHandler == 0

DictGet(d, key, none) == IF key \in DOMAIN d THEN d[key] ELSE none

\* dict.update(items): the new items win
DictUpdate(d, items) == items @@ d

-----------------------------------------------------------------------------
(* Values the calls are tried on *)

\* commissaire.models: the model types the registry routes
Host == "Host"
ModelTypes == {Host, "Cluster"}

\* handler classes and their __module__
HandlerTypes == {"StoreHandlerTest"}

HandlerModule(handler_type) ==
    IF handler_type = "StoreHandlerTest" THEN <<"t">>
    ELSE IF handler_type = "EtcdStoreHandler" THEN <<"e">> ELSE <<"c">>

\* config dicts: 'name', and whether the handler type's check_config takes it
Configs ==
    \* config['name'] as given by the caller; <<>> also stands for a missing key
    [name : {<<>>, <<" ">>, <<"a">>, <<"a", " ">>, <<"t">>}, valid : {TRUE}]
    \cup [name : {<<>>}, valid : {FALSE}]

\* the one attribute _validate() looks at: 'none' is the ill-typed value
Keys == {"k1", "none"}

\* model instances
Models ==
    \* Host.source values
    [type : {Host},
     source : {<<>>, <<" ">>, <<"a">>, <<" ", "a">>, <<"t">>},
     key : Keys]
    \cup [type : ModelTypes \ {Host}, source : {<<>>}, key : Keys]

-----------------------------------------------------------------------------
(* The registry both classes keep: four dicts, and the handler instances   *)
(* constructed so far.  A handler instance is its position in made; made[h]*)
(* is the definition it was constructed from.                              *)

NewRegistry ==
    [ _definitions_by_name       |-> EmptyDict,
      _definitions_by_model_type |-> EmptyDict,
      _handlers_by_name          |-> EmptyDict,
      _handlers_by_model_type    |-> EmptyDict,
      made                       |-> <<>> ]

\* handler_type.check_config(config): raises ConfigurationError or returns
check_config(handler_type, config) == config.valid

\* the derivation trying one suffix only (an if in place of the while)
DeriveName_once(module, name, suffix, taken) ==
    IF name \in taken THEN FormatName(module, suffix) ELSE name

\* the while loop of register_store_handler that derives a free name
RECURSIVE DeriveName(_, _, _, _)
DeriveName(module, name, suffix, taken) ==
    IF name \in taken
    THEN DeriveName(module, FormatName(module, suffix), suffix + 1, taken)
    ELSE name

\* register_store_handler resolving the name without str.strip()
ResolveName_unstripped(self, handler_type, config) ==
    IF config.name = <<>>
    THEN DeriveName(HandlerModule(handler_type), HandlerModule(handler_type),
                    1, DOMAIN self._definitions_by_name)
    ELSE config.name

\* the name register_store_handler resolves for config: the trimmed
\* config['name'], or a name derived from the handler type's module
ResolveName(self, handler_type, config) ==
    IF strip(config.name) = <<>>
    THEN DeriveName(HandlerModule(handler_type), HandlerModule(handler_type),
                    1, DOMAIN self._definitions_by_name)
    ELSE strip(config.name)

\* the ownership test looking in the instance cache instead
ModelTypeTaken_in_handlers(self, mt) ==
    mt \in DOMAIN self._handlers_by_model_type

\* `mt in self._definitions_by_model_type`
ModelTypeTaken(self, mt) == mt \in DOMAIN self._definitions_by_model_type

\* register_store_handler indexing the definition by name before it has
\* looked at the model types
register_store_handler_early_add(self, handler_type, config, model_types) ==
    LET name == ResolveName(self, handler_type, config)
        config2 == IF strip(config.name) = <<>>
                   THEN [config EXCEPT !.name = name]
                   ELSE config
        definition == [handler_type |-> handler_type, config |-> config2,
                       model_types |-> model_types]
        added == [self EXCEPT !._definitions_by_name =
                                  DictUpdate(@, name :> definition)]
    IN  IF ~check_config(handler_type, config)
        THEN [self |-> self, config |-> config,
              raised |-> "ConfigurationError", why |-> "check_config"]
        ELSE IF name \in DOMAIN self._definitions_by_name
        THEN [self |-> self, config |-> config2,
              raised |-> "ConfigurationError", why |-> "name"]
        ELSE IF \E mt \in model_types : ModelTypeTaken(self, mt)
        THEN [self |-> added, config |-> config2,
              raised |-> "ConfigurationError", why |-> "model_type"]
        ELSE [self |-> [added EXCEPT !._definitions_by_model_type =
                  DictUpdate(@, [mt \in model_types |-> definition])],
              config |-> config2, raised |-> "ok", why |-> "ok"]

\* StoreHandlerManager.register_store_handler(handler_type, config, *model_types)
\* gives the registry after the call, the caller's config dict after the call,
\* and the error raised ("ok" when none)
register_store_handler(self, handler_type, config, model_types) ==
    LET name == ResolveName(self, handler_type, config)
        config2 == IF strip(config.name) = <<>>
                   THEN [config EXCEPT !.name = name]
                   ELSE config
        definition == [handler_type |-> handler_type, config |-> config2,
                       model_types |-> model_types]
    IN  IF ~check_config(handler_type, config)
        THEN [self |-> self, config |-> config,
              raised |-> "ConfigurationError", why |-> "check_config"]
        ELSE IF name \in DOMAIN self._definitions_by_name
        THEN [self |-> self, config |-> config2,
              raised |-> "ConfigurationError", why |-> "name"]
        ELSE IF \E mt \in model_types : ModelTypeTaken(self, mt)
        THEN [self |-> self, config |-> config2,
              raised |-> "ConfigurationError", why |-> "model_type"]
        ELSE [self |-> [self EXCEPT
                  !._definitions_by_name =
                      DictUpdate(@, name :> definition),
                  !._definitions_by_model_type =
                      DictUpdate(@, [mt \in model_types |-> definition])],
              config |-> config2, raised |-> "ok", why |-> "ok"]

\* StoreHandlerManager._create_handler(definition)
_create_handler(self, definition) ==
    LET handler == Len(self.made) + 1
    IN  [self |-> [self EXCEPT
             !.made = Append(@, definition),
             !._handlers_by_name =
                 DictUpdate(@, definition.config.name :> handler),
             !._handlers_by_model_type =
                 DictUpdate(@, [mt \in definition.model_types |-> handler])],
         handler |-> handler]

\* _get_handler looking in the model type cache before the Host source
_get_handler_type_first(self, model) ==
    LET name == IF model.type = Host THEN strip(model.source) ELSE <<>>
        byType == DictGet(self._handlers_by_model_type, model.type, NoHandler)
        cached == DictGet(self._handlers_by_name, name, NoHandler)
    IN  IF byType # NoHandler
        THEN [self |-> self, handler |-> byType, raised |-> "ok"]
        ELSE IF name # <<>> /\ cached # NoHandler
        THEN [self |-> self, handler |-> cached, raised |-> "ok"]
        ELSE IF name # <<>> /\ name \notin DOMAIN self._definitions_by_name
        THEN [self |-> self, handler |-> NoHandler, raised |-> "KeyError"]
        ELSE IF name # <<>>
        THEN _create_handler(self, self._definitions_by_name[name])
                 @@ [raised |-> "ok"]
        ELSE IF model.type \notin DOMAIN self._definitions_by_model_type
        THEN [self |-> self, handler |-> NoHandler, raised |-> "KeyError"]
        ELSE _create_handler(self, self._definitions_by_model_type[model.type])
                 @@ [raised |-> "ok"]

\* _get_handler going on to the model type's handler when the Host source
\* names no definition (dict.get in place of the subscript)
_get_handler_fallback(self, model) ==
    LET name == IF model.type = Host THEN strip(model.source) ELSE <<>>
        cached == DictGet(self._handlers_by_name, name, NoHandler)
        byName ==
            IF name = <<>> \/ (cached = NoHandler
                               /\ name \notin DOMAIN self._definitions_by_name)
            THEN [self |-> self, handler |-> NoHandler, raised |-> "ok"]
            ELSE IF cached # NoHandler
            THEN [self |-> self, handler |-> cached, raised |-> "ok"]
            ELSE _create_handler(self, self._definitions_by_name[name])
                     @@ [raised |-> "ok"]
        s1 == byName.self
        byType == DictGet(s1._handlers_by_model_type, model.type, NoHandler)
    IN  IF byName.handler # NoHandler
        THEN byName
        ELSE IF byType # NoHandler
        THEN [self |-> s1, handler |-> byType, raised |-> "ok"]
        ELSE IF model.type \notin DOMAIN s1._definitions_by_model_type
        THEN [self |-> s1, handler |-> NoHandler, raised |-> "KeyError"]
        ELSE _create_handler(s1, s1._definitions_by_model_type[model.type])
                 @@ [raised |-> "ok"]

\* StoreHandlerManager._get_handler(model)
\* gives the registry after the call, the handler returned (NoHandler when
\* the call raised) and the error raised
_get_handler(self, model) ==
    LET name == IF model.type = Host THEN strip(model.source) ELSE <<>>
        cached == DictGet(self._handlers_by_name, name, NoHandler)
        byName ==
            IF name = <<>>
            THEN [self |-> self, handler |-> NoHandler, raised |-> "ok"]
            ELSE IF cached # NoHandler
            THEN [self |-> self, handler |-> cached, raised |-> "ok"]
            ELSE IF name \notin DOMAIN self._definitions_by_name
            THEN [self |-> self, handler |-> NoHandler, raised |-> "KeyError"]
            ELSE _create_handler(self, self._definitions_by_name[name])
                     @@ [raised |-> "ok"]
        s1 == byName.self
        byType == DictGet(s1._handlers_by_model_type, model.type, NoHandler)
    IN  IF byName.raised # "ok" \/ byName.handler # NoHandler
        THEN byName
        ELSE IF byType # NoHandler
        THEN [self |-> s1, handler |-> byType, raised |-> "ok"]
        ELSE IF model.type \notin DOMAIN s1._definitions_by_model_type
        THEN [self |-> s1, handler |-> NoHandler, raised |-> "KeyError"]
        ELSE _create_handler(s1, s1._definitions_by_model_type[model.type])
                 @@ [raised |-> "ok"]

-----------------------------------------------------------------------------
(* Actions on the StoreHandlerManager *)

Init ==
    /\ manager = NewRegistry
    /\ service = NewRegistry
    /\ result = [op |-> "init"]
    /\ PeersIdle

Register ==
    /\ \E handler_type \in HandlerTypes, config \in Configs,
          model_types \in SUBSET ModelTypes :
          LET r == register_store_handler(manager, handler_type, config,
                                          model_types)
          IN  /\ Cardinality(DOMAIN r.self._definitions_by_name) <= MaxDefs
              /\ manager' = r.self
              /\ result' = [op |-> "register", name |-> config.name,
                            model_types |-> model_types,
                            config |-> r.config, raised |-> r.raised,
                            why |-> r.why, before |-> manager]
    /\ UNCHANGED <<service, peers>>

GetHandler ==
    /\ \E model \in {m \in Models : m.key = "k1"} :
          LET r == _get_handler(manager, model)
          IN  /\ Len(r.self.made) <= MaxMade
              /\ manager' = r.self
              /\ result' = [op |-> "get_handler", model |-> model,
                            handler |-> r.handler, raised |-> r.raised,
                            before |-> manager]
    /\ UNCHANGED <<service, peers>>

-----------------------------------------------------------------------------
(* Model instances and store handlers as the dispatch methods see them *)

\* model_instance._validate(): raises ValidationError or returns
_validate(model_instance) == model_instance.key # "none"

\* What a handler primitive does when invoked: it raises, or it returns a
\* record whose validated attribute is `key` (the backend's data)
Behaviours == {[raises |-> FALSE, key |-> "k1"],
               [raises |-> FALSE, key |-> "none"],
               [raises |-> TRUE,  key |-> "none"]}

\* the record a primitive returns for model_instance
Returned(model_instance, behaviour) ==
    [model_instance EXCEPT !.key = behaviour.key]

\* one invocation of a handler primitive
Call(primitive, handler, model_instance) ==
    [primitive |-> primitive, handler |-> handler, model |-> model_instance]

NoModel == [type |-> "None"]

\* save validating only after the handler has saved
save_validate_late(self, model_instance, behaviour) ==
    LET h == _get_handler(self, model_instance)
    IN  IF h.raised # "ok"
        THEN [self |-> h.self, calls |-> <<>>, value |-> NoModel,
              raised |-> h.raised]
        ELSE IF behaviour.raises
        THEN [self |-> h.self,
              calls |-> <<Call("_save", h.handler, model_instance)>>,
              value |-> NoModel, raised |-> "HandlerError"]
        ELSE IF ~_validate(model_instance)
        THEN [self |-> h.self,
              calls |-> <<Call("_save", h.handler, model_instance)>>,
              value |-> NoModel, raised |-> "ValidationError"]
        ELSE [self |-> h.self,
              calls |-> <<Call("_save", h.handler, model_instance)>>,
              value |-> Returned(model_instance, behaviour),
              raised |-> "ok"]

\* StoreHandlerManager.save(model_instance)
\* gives the registry after the call, the primitives invoked, the model
\* returned (NoModel when the call raised) and the error raised
save(self, model_instance, behaviour) ==
    LET h == _get_handler(self, model_instance)
    IN  IF h.raised # "ok"
        THEN [self |-> h.self, calls |-> <<>>, value |-> NoModel,
              raised |-> h.raised]
        ELSE IF ~_validate(model_instance)
        THEN [self |-> h.self, calls |-> <<>>, value |-> NoModel,
              raised |-> "ValidationError"]
        ELSE IF behaviour.raises
        THEN [self |-> h.self,
              calls |-> <<Call("_save", h.handler, model_instance)>>,
              value |-> NoModel, raised |-> "HandlerError"]
        ELSE [self |-> h.self,
              calls |-> <<Call("_save", h.handler, model_instance)>>,
              value |-> Returned(model_instance, behaviour),
              raised |-> "ok"]

\* get validating the record it was given, not the one the handler returned
get_validate_input(self, model_instance, behaviour) ==
    LET h == _get_handler(self, model_instance)
        found == Returned(model_instance, behaviour)
    IN  IF h.raised # "ok"
        THEN [self |-> h.self, calls |-> <<>>, value |-> NoModel,
              raised |-> h.raised]
        ELSE IF behaviour.raises
        THEN [self |-> h.self,
              calls |-> <<Call("_get", h.handler, model_instance)>>,
              value |-> NoModel, raised |-> "HandlerError"]
        ELSE IF ~_validate(model_instance)
        THEN [self |-> h.self,
              calls |-> <<Call("_get", h.handler, model_instance)>>,
              value |-> NoModel, raised |-> "ValidationError"]
        ELSE [self |-> h.self,
              calls |-> <<Call("_get", h.handler, model_instance)>>,
              value |-> found, raised |-> "ok"]

\* StoreHandlerManager.get(model_instance)
get(self, model_instance, behaviour) ==
    LET h == _get_handler(self, model_instance)
        found == Returned(model_instance, behaviour)
    IN  IF h.raised # "ok"
        THEN [self |-> h.self, calls |-> <<>>, value |-> NoModel,
              raised |-> h.raised]
        ELSE IF behaviour.raises
        THEN [self |-> h.self,
              calls |-> <<Call("_get", h.handler, model_instance)>>,
              value |-> NoModel, raised |-> "HandlerError"]
        ELSE IF ~_validate(found)
        THEN [self |-> h.self,
              calls |-> <<Call("_get", h.handler, model_instance)>>,
              value |-> NoModel, raised |-> "ValidationError"]
        ELSE [self |-> h.self,
              calls |-> <<Call("_get", h.handler, model_instance)>>,
              value |-> found, raised |-> "ok"]

\* StoreHandlerManager.delete(model_instance)
delete(self, model_instance, behaviour) ==
    LET h == _get_handler(self, model_instance)
    IN  IF h.raised # "ok"
        THEN [self |-> h.self, calls |-> <<>>, value |-> NoModel,
              raised |-> h.raised]
        ELSE IF behaviour.raises
        THEN [self |-> h.self,
              calls |-> <<Call("_delete", h.handler, model_instance)>>,
              value |-> NoModel, raised |-> "HandlerError"]
        ELSE [self |-> h.self,
              calls |-> <<Call("_delete", h.handler, model_instance)>>,
              value |-> NoModel, raised |-> "ok"]

\* the records the dispatch methods are tried on
DispatchModels == {m \in Models : m.source \in {<<>>, <<"a">>}}

\* what result keeps of one dispatch call
Dispatched(op, model_instance, behaviour, r, before) ==
    [op |-> op, model |-> model_instance, behaviour |-> behaviour,
     calls |-> r.calls, value |-> r.value, raised |-> r.raised,
     before |-> before]

Save ==
    /\ \E model_instance \in DispatchModels, behaviour \in Behaviours :
          LET r == save(manager, model_instance, behaviour)
          IN  /\ Len(r.self.made) <= MaxMade
              /\ manager' = r.self
              /\ result' = Dispatched("save", model_instance, behaviour, r,
                                      manager)
    /\ UNCHANGED <<service, peers>>

Get ==
    /\ \E model_instance \in DispatchModels, behaviour \in Behaviours :
          LET r == get(manager, model_instance, behaviour)
          IN  /\ Len(r.self.made) <= MaxMade
              /\ manager' = r.self
              /\ result' = Dispatched("get", model_instance, behaviour, r,
                                      manager)
    /\ UNCHANGED <<service, peers>>

Delete ==
    /\ \E model_instance \in DispatchModels, behaviour \in Behaviours :
          LET r == delete(manager, model_instance, behaviour)
          IN  /\ Len(r.self.made) <= MaxMade
              /\ manager' = r.self
              /\ result' = Dispatched("delete", model_instance, behaviour, r,
                                      manager)
    /\ UNCHANGED <<service, peers>>

Next == Register \/ GetHandler \/ Save \/ Get \/ Delete

Spec == Init /\ [][Next]_vars

-----------------------------------------------------------------------------
(* StorageService: registration from configuration data *)

\* the collection model type of Host records, and the model types that hold
\* credentials (SecretModel and its subclass HostCreds)
Hosts == "Hosts"
HostCreds == "HostCreds"
SecretModelTypes == {"SecretModel", HostCreds}

\* self._model_types: every subclass of models.Model that commissaire.models
\* holds (here the plain, the collection and the secret ones the requests
\* and configurations are about)
ServiceModelTypes == ModelTypes \cup {Hosts} \cup SecretModelTypes

\* commissaire.models names, as fnmatch sees them
TypeName(mt) ==
    CASE mt = Host -> <<"H", "o", "s", "t">>
      [] mt = Hosts -> <<"H", "o", "s", "t", "s">>
      [] mt = HostCreds -> <<"H", "o", "s", "t", "C", "r", "e", "d", "s">>
      [] mt = "SecretModel" ->
             <<"S", "e", "c", "r", "e", "t", "M", "o", "d", "e", "l">>
      [] OTHER -> <<"C", "l", "u", "s", "t", "e", "r">>

\* fnmatch: '*' matches any run of characters, '?' any one character
RECURSIVE fnmatch(_, _)
fnmatch(name, pattern) ==
    IF pattern = <<>> THEN name = <<>>
    ELSE IF Head(pattern) = "*"
    THEN \/ fnmatch(name, Tail(pattern))
         \/ (name # <<>> /\ fnmatch(Tail(name), pattern))
    ELSE IF name = <<>> THEN FALSE
    ELSE IF Head(pattern) = "?" THEN fnmatch(Tail(name), Tail(pattern))
    ELSE Head(pattern) = Head(name) /\ fnmatch(Tail(name), Tail(pattern))

\* fnmatch.filter(self._model_types.keys(), pattern), as model types
fnmatch_filter(pattern) ==
    {mt \in ServiceModelTypes : fnmatch(TypeName(mt), pattern)}

\* import_plugin(module_name, 'commissaire.storage', StoreHandlerBase): the
\* handler class, or "" when the selector names no store handler module
import_plugin(module_name) ==
    IF module_name = "etcd" THEN "EtcdStoreHandler"
    ELSE IF module_name = "custodia" THEN "CustodiaStoreHandler"
    ELSE ""

\* __module__ of the classes import_plugin gives
PluginModule(handler_type) ==
    IF handler_type = "EtcdStoreHandler" THEN <<"e">> ELSE <<"c">>

\* the loop passing over a pattern that matches nothing
RECURSIVE MatchPatterns_skip(_, _)
MatchPatterns_skip(patterns, matched_types) ==
    IF patterns = <<>> THEN [raised |-> "ok", matched_types |-> matched_types]
    ELSE MatchPatterns_skip(Tail(patterns),
                            matched_types \cup fnmatch_filter(Head(patterns)))

\* the for loop over config['models']: the model types matched so far, or
\* the failure at the first pattern that matches nothing
RECURSIVE MatchPatterns(_, _)
MatchPatterns(patterns, matched_types) ==
    IF patterns = <<>> THEN [raised |-> "ok", matched_types |-> matched_types]
    ELSE IF fnmatch_filter(Head(patterns)) = {}
    THEN [raised |-> "ConfigurationError", matched_types |-> matched_types]
    ELSE MatchPatterns(Tail(patterns),
                       matched_types \cup fnmatch_filter(Head(patterns)))

\* what is left of the config dict once 'type' and 'models' are popped
Popped(config) == [name |-> config.name, valid |-> config.valid]

\* StorageService._register_store_handler(config)
\* config is [is_dict, has_type, type, has_models, models, name, valid]
_register_store_handler(self, config) ==
    LET handler_type == import_plugin(config.type)
        patterns == IF config.has_models THEN config.models ELSE <<<<"*">>>>
        m == MatchPatterns(patterns, {})
        matched_types == m.matched_types
        rest == Popped(config)
        stripped == strip(rest.name)
        name == IF stripped = <<>>
                THEN DeriveName(PluginModule(handler_type),
                                PluginModule(handler_type), 1,
                                DOMAIN self._definitions_by_name)
                ELSE stripped
        config2 == IF stripped = <<>> THEN [rest EXCEPT !.name = name]
                   ELSE rest
        definition == [handler_type |-> handler_type, config |-> config2,
                       model_types |-> matched_types]
        refused(why) == [self |-> self, raised |-> "ConfigurationError",
                         why |-> why]
    IN  IF ~config.is_dict THEN refused("format")
        ELSE IF ~config.has_type THEN refused("type")
        ELSE IF handler_type = "" THEN refused("import_plugin")
        ELSE IF m.raised # "ok" THEN refused("models")
        ELSE IF ~check_config(handler_type, rest) THEN refused("check_config")
        ELSE IF name \in DOMAIN self._definitions_by_name
        THEN refused("name")
        ELSE IF \E mt \in matched_types :
                    mt \in DOMAIN self._definitions_by_model_type
        THEN refused("model_type")
        ELSE [self |-> [self EXCEPT
                  !._definitions_by_name =
                      DictUpdate(@, name :> definition),
                  !._definitions_by_model_type =
                      DictUpdate(@, [mt \in matched_types |-> definition])],
              raised |-> "ok", why |-> "ok"]

\* commissaire.constants.DEFAULT_ETCD_STORE_HANDLER
DEFAULT_ETCD_STORE_HANDLER ==
    [is_dict |-> TRUE, has_type |-> TRUE, type |-> "etcd",
     has_models |-> TRUE, models |-> <<<<"*">>>>, name |-> <<>>,
     valid |-> TRUE]

\* the registration loop of StorageService.__init__: stops at the first
\* configuration that is refused
RECURSIVE RegisterAll(_, _)
RegisterAll(self, store_handlers) ==
    IF store_handlers = <<>> THEN [self |-> self, raised |-> "ok"]
    ELSE LET r == _register_store_handler(self, Head(store_handlers))
         IN  IF r.raised # "ok" THEN [self |-> r.self, raised |-> r.raised]
             ELSE RegisterAll(r.self, Tail(store_handlers))

\* StorageService.__init__ with 'storage_handlers' of the config file
StorageService__init__(store_handlers) ==
    RegisterAll(NewRegistry,
                IF Len(store_handlers) = 0
                THEN <<DEFAULT_ETCD_STORE_HANDLER>>
                ELSE store_handlers)

\* a storage_handlers entry
StoreHandlerConfig(type, name, has_models, models) ==
    [is_dict |-> TRUE, has_type |-> TRUE, type |-> type,
     has_models |-> has_models, models |-> models, name |-> name,
     valid |-> TRUE]

\* the storage_handlers entries the service is constructed from
StoreHandlerConfigs ==
    { StoreHandlerConfig("etcd", <<>>, FALSE, <<>>),
      StoreHandlerConfig("etcd", <<>>, TRUE, <<<<"H", "o", "s", "t">>>>),
      StoreHandlerConfig("etcd", <<>>, TRUE, <<<<"C", "*">>>>),
      StoreHandlerConfig("custodia", <<"a">>, TRUE, <<>>),
      StoreHandlerConfig("custodia", <<"a">>, TRUE, <<<<"H", "*">>>>) }

\* lists of at most n elements of S
ListsUpTo(S, n) == UNION {[1..k -> S] : k \in 0..n}

-----------------------------------------------------------------------------
(* StorageService: resolving handlers *)

\* _create_handler caching the instance under the name only
StorageService_create_handler_by_name(self, definition) ==
    LET handler == Len(self.made) + 1
    IN  [self |-> [self EXCEPT
             !.made = Append(@, definition),
             !._handlers_by_name =
                 DictUpdate(@, definition.config.name :> handler)],
         handler |-> handler]

\* StorageService._create_handler(definition)
StorageService_create_handler(self, definition) ==
    LET handler == Len(self.made) + 1
    IN  [self |-> [self EXCEPT
             !.made = Append(@, definition),
             !._handlers_by_name =
                 DictUpdate(@, definition.config.name :> handler),
             !._handlers_by_model_type =
                 DictUpdate(@, [mt \in definition.model_types |-> handler])],
         handler |-> handler]

\* StorageService._get_handler(model)
StorageService_get_handler(self, model) ==
    LET name == IF model.type = Host THEN strip(model.source) ELSE <<>>
        cached == DictGet(self._handlers_by_name, name, NoHandler)
        byName ==
            IF name = <<>>
            THEN [self |-> self, handler |-> NoHandler, raised |-> "ok"]
            ELSE IF cached # NoHandler
            THEN [self |-> self, handler |-> cached, raised |-> "ok"]
            ELSE IF name \notin DOMAIN self._definitions_by_name
            THEN [self |-> self, handler |-> NoHandler, raised |-> "KeyError"]
            ELSE StorageService_create_handler(
                     self, self._definitions_by_name[name])
                     @@ [raised |-> "ok"]
        s1 == byName.self
        byType == DictGet(s1._handlers_by_model_type, model.type, NoHandler)
    IN  IF byName.raised # "ok" \/ byName.handler # NoHandler
        THEN byName
        ELSE IF byType # NoHandler
        THEN [self |-> s1, handler |-> byType, raised |-> "ok"]
        ELSE IF model.type \notin DOMAIN s1._definitions_by_model_type
        THEN [self |-> s1, handler |-> NoHandler, raised |-> "KeyError"]
        ELSE StorageService_create_handler(
                 s1, s1._definitions_by_model_type[model.type])
                 @@ [raised |-> "ok"]

-----------------------------------------------------------------------------
(* StorageService: building models from wire data *)

\* One element of model_json_data.  form: a dict, or a str of JSON text;
\* text: what json.loads makes of the str; required: whether the mapping
\* holds the model type's required fields; given: the optional fields the
\* mapping holds; source, key: its fields (source counts only when given)
WireData(form, text, required, given, source, key) ==
    [form |-> form, text |-> text, required |-> required, given |-> given,
     source |-> source, key |-> key]

DefaultSource == <<>>

\* a complete, valid mapping of the required fields only
Plain == WireData("dict", "object", TRUE, {}, <<>>, "k1")

\* the type names requests are made for
TypeNames == {Host}

\* _build_model letting the defaults win over the fields given
_build_model_defaults_win(model_type_name, model_json_data) ==
    IF model_json_data.form = "str" /\ model_json_data.text = "unparsable"
    THEN [raised |-> "JSONDecodeError", model |-> NoModel]
    ELSE IF model_json_data.form = "str" /\ model_json_data.text # "object"
    THEN [raised |-> "TypeError", model |-> NoModel]
    ELSE IF model_type_name \notin ServiceModelTypes
    THEN [raised |-> "KeyError", model |-> NoModel]
    ELSE IF ~model_json_data.required
    THEN [raised |-> "TypeError", model |-> NoModel]
    ELSE [raised |-> "ok",
          model |-> [type |-> model_type_name, source |-> DefaultSource,
                     key |-> model_json_data.key]]

\* StorageService._build_model(model_type_name, model_json_data)
\* gives the model instance, or the error raised
_build_model(model_type_name, model_json_data) ==
    IF model_json_data.form = "str" /\ model_json_data.text = "unparsable"
    THEN [raised |-> "JSONDecodeError", model |-> NoModel]
    ELSE IF model_json_data.form = "str" /\ model_json_data.text # "object"
    THEN [raised |-> "TypeError", model |-> NoModel]
    ELSE IF model_type_name \notin ServiceModelTypes
    THEN [raised |-> "KeyError", model |-> NoModel]
    ELSE IF ~model_json_data.required
    THEN [raised |-> "TypeError", model |-> NoModel]
    ELSE [raised |-> "ok",
          model |-> [type |-> model_type_name,
                     source |-> IF "source" \in model_json_data.given
                                THEN model_json_data.source
                                ELSE DefaultSource,
                     key |-> model_json_data.key]]

\* [self._build_model(model_type_name, x) for x in model_json_data]
RECURSIVE BuildAll(_, _, _)
BuildAll(model_type_name, model_json_data, models) ==
    IF model_json_data = <<>> THEN [raised |-> "ok", models |-> models]
    ELSE LET b == _build_model(model_type_name, Head(model_json_data))
         IN  IF b.raised # "ok" THEN [raised |-> b.raised, models |-> <<>>]
             ELSE BuildAll(model_type_name, Tail(model_json_data),
                           Append(models, b.model))

\* model_instance.to_dict()
to_dict(model_instance) ==
    [key |-> model_instance.key, source |-> model_instance.source]

-----------------------------------------------------------------------------
(* StorageService: the storage.save, storage.get, storage.delete handlers *)

\* _save_model invoking the save primitive a second time when it raised
_save_model_retry(self, model_instance, behaviour) ==
    LET h == StorageService_get_handler(self, model_instance)
    IN  IF h.raised # "ok"
        THEN [self |-> h.self, calls |-> <<>>, value |-> NoModel,
              raised |-> h.raised]
        ELSE IF ~_validate(model_instance)
        THEN [self |-> h.self, calls |-> <<>>, value |-> NoModel,
              raised |-> "ValidationError"]
        ELSE IF behaviour.raises
        THEN [self |-> h.self,
              calls |-> <<Call("_save", h.handler, model_instance),
                          Call("_save", h.handler, model_instance)>>,
              value |-> NoModel, raised |-> "HandlerError"]
        ELSE [self |-> h.self,
              calls |-> <<Call("_save", h.handler, model_instance)>>,
              value |-> Returned(model_instance, behaviour),
              raised |-> "ok"]

\* StorageService._save_model(model_instance)
_save_model(self, model_instance, behaviour) ==
    LET h == StorageService_get_handler(self, model_instance)
    IN  IF h.raised # "ok"
        THEN [self |-> h.self, calls |-> <<>>, value |-> NoModel,
              raised |-> h.raised]
        ELSE IF ~_validate(model_instance)
        THEN [self |-> h.self, calls |-> <<>>, value |-> NoModel,
              raised |-> "ValidationError"]
        ELSE IF behaviour.raises
        THEN [self |-> h.self,
              calls |-> <<Call("_save", h.handler, model_instance)>>,
              value |-> NoModel, raised |-> "HandlerError"]
        ELSE [self |-> h.self,
              calls |-> <<Call("_save", h.handler, model_instance)>>,
              value |-> Returned(model_instance, behaviour),
              raised |-> "ok"]

\* StorageService._get_model(model_instance)
_get_model(self, model_instance, behaviour) ==
    LET h == StorageService_get_handler(self, model_instance)
        found == Returned(model_instance, behaviour)
    IN  IF h.raised # "ok"
        THEN [self |-> h.self, calls |-> <<>>, value |-> NoModel,
              raised |-> h.raised]
        ELSE IF behaviour.raises
        THEN [self |-> h.self,
              calls |-> <<Call("_get", h.handler, model_instance)>>,
              value |-> NoModel, raised |-> "HandlerError"]
        ELSE IF ~_validate(found)
        THEN [self |-> h.self,
              calls |-> <<Call("_get", h.handler, model_instance)>>,
              value |-> NoModel, raised |-> "ValidationError"]
        ELSE [self |-> h.self,
              calls |-> <<Call("_get", h.handler, model_instance)>>,
              value |-> found, raised |-> "ok"]

\* StorageService._delete_model(model_instance)
_delete_model(self, model_instance, behaviour) ==
    LET h == StorageService_get_handler(self, model_instance)
    IN  IF h.raised # "ok"
        THEN [self |-> h.self, calls |-> <<>>, value |-> NoModel,
              raised |-> h.raised]
        ELSE IF behaviour.raises
        THEN [self |-> h.self,
              calls |-> <<Call("_delete", h.handler, model_instance)>>,
              value |-> NoModel, raised |-> "HandlerError"]
        ELSE [self |-> h.self,
              calls |-> <<Call("_delete", h.handler, model_instance)>>,
              value |-> NoModel, raised |-> "ok"]

\* the save loop going on to the later elements after one has raised, and
\* raising the first error at its end
RECURSIVE SaveEach_continue(_, _, _, _, _)
SaveEach_continue(self, models, behaviours, calls, dicts) ==
    IF models = <<>>
    THEN [self |-> self, calls |-> calls, value |-> dicts, raised |-> "ok"]
    ELSE LET r == _save_model(self, Head(models), Head(behaviours))
             rest == SaveEach_continue(r.self, Tail(models), Tail(behaviours),
                                       calls \o r.calls, dicts)
         IN  IF r.raised # "ok"
             THEN [rest EXCEPT !.value = <<>>, !.raised = r.raised]
             ELSE SaveEach_continue(r.self, Tail(models), Tail(behaviours),
                                    calls \o r.calls,
                                    Append(dicts, to_dict(r.value)))

\* the records a sequence of save invocations was made for, deleted again
\* from the last to the first
RECURSIVE Undo(_)
Undo(calls) ==
    IF calls = <<>> THEN <<>>
    ELSE Undo(Tail(calls))
         \o <<Call("_delete", Head(calls).handler, Head(calls).model)>>

\* the save loop deleting what it has saved when a later element raises
RECURSIVE SaveEach_rollback(_, _, _, _, _)
SaveEach_rollback(self, models, behaviours, calls, dicts) ==
    IF models = <<>>
    THEN [self |-> self, calls |-> calls, value |-> dicts, raised |-> "ok"]
    ELSE LET r == _save_model(self, Head(models), Head(behaviours))
         IN  IF r.raised # "ok"
             THEN [self |-> r.self, calls |-> calls \o r.calls \o Undo(calls),
                   value |-> <<>>, raised |-> r.raised]
             ELSE SaveEach_rollback(r.self, Tail(models), Tail(behaviours),
                                    calls \o r.calls,
                                    Append(dicts, to_dict(r.value)))

\* the save loop putting each representation in front of the earlier ones
RECURSIVE SaveEach_prepend(_, _, _, _, _)
SaveEach_prepend(self, models, behaviours, calls, dicts) ==
    IF models = <<>>
    THEN [self |-> self, calls |-> calls, value |-> dicts, raised |-> "ok"]
    ELSE LET r == _save_model(self, Head(models), Head(behaviours))
         IN  IF r.raised # "ok"
             THEN [self |-> r.self, calls |-> calls \o r.calls,
                   value |-> <<>>, raised |-> r.raised]
             ELSE SaveEach_prepend(r.self, Tail(models), Tail(behaviours),
                                   calls \o r.calls,
                                   <<to_dict(r.value)>> \o dicts)

\* [self._save_model(x).to_dict() for x in models]: the comprehension ends
\* at the first element that raises, and its list is then lost
RECURSIVE SaveEach(_, _, _, _, _)
SaveEach(self, models, behaviours, calls, dicts) ==
    IF models = <<>>
    THEN [self |-> self, calls |-> calls, value |-> dicts, raised |-> "ok"]
    ELSE LET r == _save_model(self, Head(models), Head(behaviours))
         IN  IF r.raised # "ok"
             THEN [self |-> r.self, calls |-> calls \o r.calls,
                   value |-> <<>>, raised |-> r.raised]
             ELSE SaveEach(r.self, Tail(models), Tail(behaviours),
                           calls \o r.calls, Append(dicts, to_dict(r.value)))

\* [self._get_model(x).to_dict() for x in models]
RECURSIVE GetEach(_, _, _, _, _)
GetEach(self, models, behaviours, calls, dicts) ==
    IF models = <<>>
    THEN [self |-> self, calls |-> calls, value |-> dicts, raised |-> "ok"]
    ELSE LET r == _get_model(self, Head(models), Head(behaviours))
         IN  IF r.raised # "ok"
             THEN [self |-> r.self, calls |-> calls \o r.calls,
                   value |-> <<>>, raised |-> r.raised]
             ELSE GetEach(r.self, Tail(models), Tail(behaviours),
                          calls \o r.calls, Append(dicts, to_dict(r.value)))

\* the delete loop going through the models from the last to the first
RECURSIVE DeleteEach_reversed(_, _, _, _)
DeleteEach_reversed(self, models, behaviours, calls) ==
    IF models = <<>>
    THEN [self |-> self, calls |-> calls, value |-> <<>>, raised |-> "ok"]
    ELSE LET n == Len(models)
             r == _delete_model(self, models[n], behaviours[n])
         IN  IF r.raised # "ok"
             THEN [self |-> r.self, calls |-> calls \o r.calls,
                   value |-> <<>>, raised |-> r.raised]
             ELSE DeleteEach_reversed(r.self, SubSeq(models, 1, n - 1),
                                      SubSeq(behaviours, 1, n - 1),
                                      calls \o r.calls)

\* for model_instance in models: self._delete_model(model_instance)
RECURSIVE DeleteEach(_, _, _, _)
DeleteEach(self, models, behaviours, calls) ==
    IF models = <<>>
    THEN [self |-> self, calls |-> calls, value |-> <<>>, raised |-> "ok"]
    ELSE LET r == _delete_model(self, Head(models), Head(behaviours))
         IN  IF r.raised # "ok"
             THEN [self |-> r.self, calls |-> calls \o r.calls,
                   value |-> <<>>, raised |-> r.raised]
             ELSE DeleteEach(r.self, Tail(models), Tail(behaviours),
                             calls \o r.calls)

\* on_save building each element only when its turn to be saved comes
RECURSIVE BuildAndSaveEach(_, _, _, _, _, _)
BuildAndSaveEach(self, model_type_name, model_json_data, behaviours, calls, dicts) ==
    IF model_json_data = <<>>
    THEN [self |-> self, calls |-> calls, value |-> dicts, raised |-> "ok"]
    ELSE LET b == _build_model(model_type_name, Head(model_json_data))
             r == _save_model(self, b.model, Head(behaviours))
         IN  IF b.raised # "ok"
             THEN [self |-> self, calls |-> calls, value |-> <<>>,
                   raised |-> b.raised]
             ELSE IF r.raised # "ok"
             THEN [self |-> r.self, calls |-> calls \o r.calls,
                   value |-> <<>>, raised |-> r.raised]
             ELSE BuildAndSaveEach(r.self, model_type_name,
                                   Tail(model_json_data), Tail(behaviours),
                                   calls \o r.calls,
                                   Append(dicts, to_dict(r.value)))

on_save_lazy_build(self, model_type_name, model_json_data, is_list, behaviours) ==
    BuildAndSaveEach(self, model_type_name, model_json_data, behaviours,
                     <<>>, <<>>)

\* the result of a request for a single element: the representation of the
\* record r gives, or r's error
SingleResult(r) ==
    [self |-> r.self, calls |-> r.calls,
     value |-> IF r.raised = "ok" THEN <<to_dict(r.value)>> ELSE <<>>,
     raised |-> r.raised]

\* the else branch of on_save: self._save_model(model).to_dict()
SaveSingle(self, model, behaviour) ==
    IF model.raised # "ok"
    THEN [self |-> self, calls |-> <<>>, value |-> <<>>,
          raised |-> model.raised]
    ELSE SingleResult(_save_model(self, model.model, behaviour))

\* the else branch of on_get: self._get_model(model).to_dict()
GetSingle(self, model, behaviour) ==
    IF model.raised # "ok"
    THEN [self |-> self, calls |-> <<>>, value |-> <<>>,
          raised |-> model.raised]
    ELSE SingleResult(_get_model(self, model.model, behaviour))

\* StorageService.on_save(message, model_type_name, model_json_data)
\* model_json_data is the sequence of elements; is_list tells a list from a
\* single element.  value is the sequence of dicts returned (of length one
\* for a single element), <<>> when the call raised.
on_save(self, model_type_name, model_json_data, is_list, behaviours) ==
    LET built == BuildAll(model_type_name, model_json_data, <<>>)
    IN  IF is_list
        THEN IF built.raised # "ok"
             THEN [self |-> self, calls |-> <<>>, value |-> <<>>,
                   raised |-> built.raised]
             ELSE SaveEach(self, built.models, behaviours, <<>>, <<>>)
        ELSE SaveSingle(self, _build_model(model_type_name,
                                          model_json_data[1]),
                        behaviours[1])

\* StorageService.on_get(message, model_type_name, model_json_data)
on_get(self, model_type_name, model_json_data, is_list, behaviours) ==
    LET built == BuildAll(model_type_name, model_json_data, <<>>)
    IN  IF is_list
        THEN IF built.raised # "ok"
             THEN [self |-> self, calls |-> <<>>, value |-> <<>>,
                   raised |-> built.raised]
             ELSE GetEach(self, built.models, behaviours, <<>>, <<>>)
        ELSE GetSingle(self, _build_model(model_type_name,
                                          model_json_data[1]),
                        behaviours[1])

\* StorageService.on_delete(message, model_type_name, model_json_data)
\* (a single element is wrapped into a list of one)
on_delete(self, model_type_name, model_json_data, is_list, behaviours) ==
    LET built == BuildAll(model_type_name, model_json_data, <<>>)
    IN  IF built.raised # "ok"
        THEN [self |-> self, calls |-> <<>>, value |-> <<>>,
              raised |-> built.raised]
        ELSE DeleteEach(self, built.models, behaviours, <<>>)

-----------------------------------------------------------------------------
(* StorageService: the storage.list handler *)

\* the model types that are collections, with the model type they collect
CollectionTypes == {Hosts}

\* model_type.new() with no fields given: an empty collection for a
\* collection type; a type with required fields cannot be made of nothing
NewEmpty(model_type) ==
    IF model_type \in CollectionTypes
    THEN [raised |-> "ok",
          model |-> [type |-> model_type, source |-> <<>>, key |-> "k1",
                     items |-> <<>>]]
    ELSE [raised |-> "TypeError", model |-> NoModel]

\* What a handler's list primitive does when invoked: it raises, or it
\* returns the collection filled with `items`
ListBehaviours ==
    {[raises |-> TRUE, items |-> <<>>]}
    \cup {[raises |-> FALSE, items |-> items] :
              \* the records a backend holds
              items \in ListsUpTo(
                  {[type |-> Host, source |-> <<>>, key |-> "k1"],
                   [type |-> Host, source |-> <<"a">>, key |-> "none"]},
                  MaxList)}

\* StorageService._list_models(model_instance)
\* value is getattr(model_instance, model_instance._list_attr, []) of what
\* the primitive returned
_list_models(self, model_instance, behaviour) ==
    LET h == StorageService_get_handler(self, model_instance)
        listed == [model_instance EXCEPT !.items = behaviour.items]
    IN  IF h.raised # "ok"
        THEN [self |-> h.self, calls |-> <<>>, value |-> <<>>,
              raised |-> h.raised]
        ELSE IF behaviour.raises
        THEN [self |-> h.self,
              calls |-> <<Call("_list", h.handler, model_instance)>>,
              value |-> <<>>, raised |-> "HandlerError"]
        ELSE [self |-> h.self,
              calls |-> <<Call("_list", h.handler, model_instance)>>,
              value |-> listed.items, raised |-> "ok"]

\* on_list giving the representations from the last to the first
on_list_reversed(self, model_type_name, behaviour) ==
    LET query == NewEmpty(model_type_name)
        r == _list_models(self, query.model, behaviour)
        n == Len(r.value)
    IN  IF model_type_name \notin ServiceModelTypes
        THEN [self |-> self, calls |-> <<>>, value |-> <<>>,
              raised |-> "KeyError"]
        ELSE IF query.raised # "ok"
        THEN [self |-> self, calls |-> <<>>, value |-> <<>>,
              raised |-> query.raised]
        ELSE [self |-> r.self, calls |-> r.calls,
              value |-> [i \in 1..n |-> to_dict(r.value[n + 1 - i])],
              raised |-> r.raised]

\* StorageService.on_list(message, model_type_name)
on_list(self, model_type_name, behaviour) ==
    LET query == NewEmpty(model_type_name)
        r == _list_models(self, query.model, behaviour)
    IN  IF model_type_name \notin ServiceModelTypes
        THEN [self |-> self, calls |-> <<>>, value |-> <<>>,
              raised |-> "KeyError"]
        ELSE IF query.raised # "ok"
        THEN [self |-> self, calls |-> <<>>, value |-> <<>>,
              raised |-> query.raised]
        ELSE [self |-> r.self, calls |-> r.calls,
              value |-> [i \in DOMAIN r.value |-> to_dict(r.value[i])],
              raised |-> r.raised]

-----------------------------------------------------------------------------
(* Requests the StorageService is tried on *)

\* a primitive that returns a valid record
Normal == [raises |-> FALSE, key |-> "k1"]

\* a request of n elements, all Plain and all handled normally, but for
\* element i being x and its handler invocation doing b
RequestWith(n, i, x, b, is_list) ==
    [data |-> [j \in 1..n |-> IF j = i THEN x ELSE Plain],
     behaviours |-> [j \in 1..n |-> IF j = i THEN b ELSE Normal],
     is_list |-> is_list]

\* ordinary, either data of a special form or a handler invocation that
\* misbehaves.
\* A request that is not a list has one element.
Requests ==
    LET shapes == {[n |-> n, is_list |-> TRUE] : n \in 0..MaxList}
                  \cup {[n |-> 1, is_list |-> FALSE]}
    IN  UNION { {RequestWith(sh.n, 0, Plain, Normal, sh.is_list)}
                \cup {RequestWith(sh.n, i, x, Normal, sh.is_list) :
                          i \in 1..sh.n,
                          \* the elements that are out of the ordinary, one
                          \* way each
                          x \in {
                      WireData("dict", "object", TRUE, {"source"}, <<"a">>, "k1"),
                      WireData("dict", "object", TRUE, {}, <<>>, "none"),
                      WireData("str", "object", TRUE, {}, <<>>, "k1"),
                      WireData("str", "object", TRUE, {"source"}, <<"a">>, "k1"),
                      WireData("str", "unparsable", TRUE, {}, <<>>, "k1"),
                      WireData("str", "nonobject", TRUE, {}, <<>>, "k1"),
                      WireData("dict", "object", FALSE, {}, <<>>, "k1") }}
                \cup {RequestWith(sh.n, i, Plain, b, sh.is_list) :
                          i \in 1..sh.n, b \in Behaviours \ {Normal}} :
                sh \in shapes }

\* what result keeps of one request
Served(op, model_type_name, rq, r, before) ==
    [op |-> op, type_name |-> model_type_name, data |-> rq.data,
     is_list |-> rq.is_list, behaviours |-> rq.behaviours,
     calls |-> r.calls, value |-> r.value, raised |-> r.raised,
     before |-> before]

InitService ==
    /\ manager = NewRegistry
    /\ \E store_handlers \in ListsUpTo(StoreHandlerConfigs, MaxDefs) :
          LET r == StorageService__init__(store_handlers)
          IN  r.raised = "ok" /\ service = r.self
    /\ result = [op |-> "init"]
    /\ PeersIdle

\* a request served: the service and the result it leaves
Serve(op, model_type_name, rq, r) ==
    /\ Len(r.self.made) <= MaxMade
    /\ service' = r.self
    /\ result' = Served(op, model_type_name, rq, r, service)

OnSave ==
    /\ \E model_type_name \in TypeNames, rq \in Requests :
          Serve("on_save", model_type_name, rq,
                on_save(service, model_type_name, rq.data, rq.is_list,
                     rq.behaviours))
    /\ UNCHANGED <<manager, peers>>

OnGet ==
    /\ \E model_type_name \in TypeNames, rq \in Requests :
          Serve("on_get", model_type_name, rq,
                on_get(service, model_type_name, rq.data, rq.is_list,
                     rq.behaviours))
    /\ UNCHANGED <<manager, peers>>

OnDelete ==
    /\ \E model_type_name \in TypeNames, rq \in Requests :
          Serve("on_delete", model_type_name, rq,
                on_delete(service, model_type_name, rq.data, rq.is_list,
                     rq.behaviours))
    /\ UNCHANGED <<manager, peers>>

OnList ==
    \* the type names storage.list is asked for
    /\ \E model_type_name \in {Hosts, Host, "Nothing"},
          behaviour \in ListBehaviours :
          LET r == on_list(service, model_type_name, behaviour)
          IN  /\ Len(r.self.made) <= MaxMade
              /\ service' = r.self
              /\ result' = [op |-> "on_list", type_name |-> model_type_name,
                            behaviour |-> behaviour, calls |-> r.calls,
                            value |-> r.value, raised |-> r.raised,
                            before |-> service]
    /\ UNCHANGED <<manager, peers>>

NextService == OnSave \/ OnGet \/ OnDelete \/ OnList

SpecService == InitService /\ [][NextService]_vars

-----------------------------------------------------------------------------
(* The registration loop of StorageService.__init__, one configuration at  *)
(* a time: result.accepted is the part of storage_handlers registered so   *)
(* far, and a configuration that is refused ends the construction.         *)

\* storage_handlers entries that name secret model types, that are
\* wildcards, or that are malformed
ConfigCases ==
    StoreHandlerConfigs
    \cup { StoreHandlerConfig("etcd", <<>>, TRUE, <<<<"*">>>>),
           StoreHandlerConfig("etcd", <<>>, TRUE, <<TypeName(HostCreds)>>),
           StoreHandlerConfig("custodia", <<>>, TRUE,
                              <<TypeName(HostCreds)>>),
           StoreHandlerConfig("custodia", <<>>, TRUE,
                              <<TypeName("SecretModel"),
                                TypeName(HostCreds)>>),
           StoreHandlerConfig("etcd", <<"a", " ">>, TRUE, <<<<"C", "*">>>>),
           StoreHandlerConfig("nothing", <<>>, FALSE, <<>>),
           StoreHandlerConfig("etcd", <<>>, TRUE, <<<<"X">>>>),
           StoreHandlerConfig("etcd", <<>>, TRUE, <<<<"H", "*">>, <<"X">>>>),
           [StoreHandlerConfig("etcd", <<>>, FALSE, <<>>)
                EXCEPT !.valid = FALSE],
           [StoreHandlerConfig("etcd", <<>>, FALSE, <<>>)
                EXCEPT !.has_type = FALSE],
           [StoreHandlerConfig("etcd", <<>>, FALSE, <<>>)
                EXCEPT !.is_dict = FALSE] }

InitConfig ==
    /\ manager = NewRegistry
    /\ service = NewRegistry
    /\ result = [op |-> "init", raised |-> "ok", accepted |-> <<>>]
    /\ PeersIdle

Configure ==
    /\ result.raised = "ok"
    /\ \E config \in ConfigCases :
          LET r == _register_store_handler(service, config)
          IN  /\ Cardinality(DOMAIN r.self._definitions_by_name) <= MaxDefs
              /\ service' = r.self
              /\ result' = [op |-> "_register_store_handler",
                            config |-> config, raised |-> r.raised,
                            why |-> r.why, before |-> service,
                            accepted |-> IF r.raised = "ok"
                                         THEN Append(result.accepted, config)
                                         ELSE result.accepted]
    /\ UNCHANGED <<manager, peers>>

NextConfig == Configure

SpecConfig == InitConfig /\ [][NextConfig]_vars

-----------------------------------------------------------------------------
(* register_store_handler on names: explicit names that look like derived  *)
(* ones, and more definitions than the other specifications register       *)

\* how many definitions the registry holds when only names are tried
MaxNamed == 3

RegisterNamed ==
    /\ \E handler_type \in HandlerTypes,
          \* config['name'] values: none, blank, the module name, names of
          \* the derived form, and a name with whitespace around it
          config \in [name : {<<>>, <<" ">>, <<"t">>, <<"t", "-", "1">>,
                              <<"t", "-", "2">>, <<" ", "t", "-", "1">>},
                      valid : {TRUE, FALSE}],
          model_types \in {{}, {Host}} :
          LET r == register_store_handler(manager, handler_type, config,
                                          model_types)
          IN  /\ Cardinality(DOMAIN r.self._definitions_by_name) <= MaxNamed
              /\ manager' = r.self
              /\ result' = [op |-> "register", name |-> config.name,
                            handler_type |-> handler_type,
                            model_types |-> model_types,
                            config |-> r.config, raised |-> r.raised,
                            why |-> r.why, before |-> manager]
    /\ UNCHANGED <<service, peers>>

NextNames == RegisterNamed

SpecNames == Init /\ [][NextNames]_vars

-----------------------------------------------------------------------------
(* _get_handler run by two requests at once.  The method takes no lock, so *)
(* a second call may run between any two statements of the first: between  *)
(* its cache read and handler_type(config), and between that and the       *)
(* writes of _create_handler.                                              *)

\* the requests that run _get_handler at the same time
Callers == {1, 2}

\* lines 157-177 of one call: the cache read (by name for a Host with a
\* source, by model type otherwise) and, on a miss, the definition looked up
LookUp(self, model) ==
    LET name == IF model.type = Host THEN strip(model.source) ELSE <<>>
        cached == IF name # <<>>
                  THEN DictGet(self._handlers_by_name, name, NoHandler)
                  ELSE DictGet(self._handlers_by_model_type, model.type,
                               NoHandler)
        known == IF name # <<>>
                 THEN name \in DOMAIN self._definitions_by_name
                 ELSE model.type \in DOMAIN self._definitions_by_model_type
    IN  IF cached # NoHandler
        THEN [pc |-> "done", model |-> model, handler |-> cached,
              raised |-> "ok"]
        ELSE IF ~known
        THEN [pc |-> "done", model |-> model, handler |-> NoHandler,
              raised |-> "KeyError"]
        ELSE [pc |-> "construct", model |-> model, handler |-> NoHandler,
              raised |-> "ok",
              definition |-> IF name # <<>>
                             THEN self._definitions_by_name[name]
                             ELSE self._definitions_by_model_type[model.type]]

\* line 145: handler = handler_type(config)
Construct(self, definition) ==
    [self |-> [self EXCEPT !.made = Append(@, definition)],
     handler |-> Len(self.made) + 1]

\* lines 146-148: the two cache writes of _create_handler
CacheHandler(self, definition, handler) ==
    [self EXCEPT
        !._handlers_by_name =
            DictUpdate(@, definition.config.name :> handler),
        !._handlers_by_model_type =
            DictUpdate(@, [mt \in definition.model_types |-> handler])]

InitRace ==
    \* configs whose name needs no trimming: a second instance of their
    \* definition can only come from the interleaving
    /\ \E config \in {c \in Configs : c.name = strip(c.name)},
          model_types \in SUBSET ModelTypes :
          LET r == register_store_handler(NewRegistry, "StoreHandlerTest",
                                          config, model_types)
          IN  r.raised = "ok" /\ manager = r.self
    /\ service = NewRegistry
    /\ result = [op |-> "init"]
    \* a request that has not called yet
    /\ inflight = [t \in Callers |-> [pc |-> "idle"]]
    /\ bus = <<>>
    /\ watcher = <<>>
    /\ pool = <<>>
    /\ job = <<>>

CallLookUp ==
    /\ \E t \in Callers, model \in {m \in Models : m.key = "k1"} :
          /\ inflight[t].pc = "idle"
          /\ inflight' = [inflight EXCEPT ![t] = LookUp(manager, model)]
    /\ UNCHANGED <<manager, service, result, bus, watcher, pool, job>>

CallConstruct ==
    /\ \E t \in Callers :
          /\ inflight[t].pc = "construct"
          /\ LET r == Construct(manager, inflight[t].definition)
             IN  /\ manager' = r.self
                 /\ inflight' = [inflight EXCEPT ![t].pc = "cache",
                                                 ![t].handler = r.handler]
    /\ UNCHANGED <<service, result, bus, watcher, pool, job>>

CallCache ==
    /\ \E t \in Callers :
          /\ inflight[t].pc = "cache"
          /\ manager' = CacheHandler(manager, inflight[t].definition,
                                     inflight[t].handler)
          /\ inflight' = [inflight EXCEPT ![t].pc = "done"]
    /\ UNCHANGED <<service, result, bus, watcher, pool, job>>

NextRace == CallLookUp \/ CallConstruct \/ CallCache

SpecRace == InitRace /\ [][NextRace]_vars

-----------------------------------------------------------------------------
(* list_store_handlers of the manager and storage.list_store_handlers of   *)
(* the service, with the successful registrations counted as they happen   *)

\* list(d.values()): the values of a dict, one per key.  The order is the
\* dict's own, which the registry here does not keep.
RECURSIVE DictValues(_)
DictValues(d) ==
    IF DOMAIN d = {} THEN <<>>
    ELSE LET k == CHOOSE x \in DOMAIN d : TRUE
         IN  <<d[k]>> \o DictValues([x \in DOMAIN d \ {k} |-> d[x]])

\* the listing read from the model type index
list_store_handlers_by_model_type(self) ==
    DictValues(self._definitions_by_model_type)

\* StoreHandlerManager.list_store_handlers()
list_store_handlers(self) == DictValues(self._definitions_by_name)

\* [mt.__name__ for mt in model_types] followed by model_types.sort()
SortedNames(model_types) ==
    LET Owned(mt) == mt \in model_types
        \* the model types in the order of their names
        sorted == SelectSeq(
                      <<"Cluster", Host, HostCreds, Hosts, "SecretModel">>,
                      Owned)
    IN  [i \in 1..Len(sorted) |-> TypeName(sorted[i])]

\* StorageService.on_list_store_handlers(message)
on_list_store_handlers(self) ==
    LET handlers == DictValues(self._definitions_by_name)
    IN  [i \in 1..Len(handlers) |->
            [handler_type |-> handlers[i].handler_type,
             config |-> handlers[i].config,
             model_types |-> SortedNames(handlers[i].model_types)]]

InitList ==
    /\ manager = NewRegistry
    /\ \E store_handlers \in ListsUpTo(StoreHandlerConfigs, MaxDefs) :
          LET r == StorageService__init__(store_handlers)
          IN  /\ r.raised = "ok"
              /\ service = r.self
              /\ result = [op |-> "init", raised |-> "ok", value |-> <<>>,
                           registered |-> 0,
                           \* how many register calls __init__ makes
                           configured |-> IF Len(store_handlers) = 0
                                          THEN 1
                                          ELSE Len(store_handlers)]
    /\ PeersIdle

\* what result keeps: the call, its outcome, and the successful register
\* calls made so far on the manager and on the service
Listed(op, raised, value, registered) ==
    [op |-> op, raised |-> raised, value |-> value,
     registered |-> registered, configured |-> result.configured]

RegisterCounted ==
    /\ \E handler_type \in HandlerTypes, config \in Configs,
          model_types \in SUBSET ModelTypes :
          LET r == register_store_handler(manager, handler_type, config,
                                          model_types)
          IN  /\ Cardinality(DOMAIN r.self._definitions_by_name) <= MaxDefs
              /\ manager' = r.self
              /\ result' = Listed("register", r.raised, <<>>,
                                  IF r.raised = "ok"
                                  THEN result.registered + 1
                                  ELSE result.registered)
    /\ UNCHANGED <<service, peers>>

ListStoreHandlers ==
    /\ result' = Listed("list_store_handlers", "ok",
                        list_store_handlers(manager), result.registered)
    /\ UNCHANGED <<manager, service, peers>>

OnListStoreHandlers ==
    /\ result' = Listed("on_list_store_handlers", "ok",
                        on_list_store_handlers(service), result.registered)
    /\ UNCHANGED <<manager, service, peers>>

NextList == RegisterCounted \/ ListStoreHandlers \/ OnListStoreHandlers

SpecList == InitList /\ [][NextList]_vars

-----------------------------------------------------------------------------
(* CommissaireService.on_message: one JSON-RPC request taken from a queue, *)
(* dispatched to on_<method>, answered on reply_to and acknowledged         *)

Exposed == {<<"p">>}

\* routing_key.rsplit('.', 1)[1]: what follows the last dot
rsplit_1(routing_key) ==
    LET dots == {i \in DOMAIN routing_key : routing_key[i] = "."}
        last == CHOOSE i \in dots : \A j \in dots : j <= i
    IN  IF dots = {} THEN [raised |-> "IndexError", value |-> <<>>]
        ELSE [raised |-> "ok",
              value |-> SubSeq(routing_key, last + 1, Len(routing_key))]

\* response['id'] when the request gave none: the integer -1
DefaultId == "-1"

\* exceptions: the type, str(error), and code and data of the
\* RemoteProcedureCallError classes
NoError == [type |-> "", message |-> "", code |-> "", data |-> ""]

Raise(type) == [type |-> type, message |-> "m", code |-> "", data |-> ""]

RemoteProcedureCallErrors ==
    {[type |-> "RemoteProcedureCallError", message |-> "m",
      code |-> "own", data |-> "d"],
     [type |-> "StorageLookupError", message |-> "m",
      code |-> "lookup", data |-> ""]}

\* isinstance(error, RemoteProcedureCallError)
IsRemoteProcedureCallError(error) ==
    error.type \in {e.type : e \in RemoteProcedureCallErrors}

\* the error code chosen for every exception alike
jsonrpc_error_code_flat(error) == "INVALID_REQUEST"

\* lines 275-281: the code for an exception that is no RemoteProcedureCallError
jsonrpc_error_code(error) ==
    IF error.type = "AttributeError" THEN "METHOD_NOT_FOUND"
    ELSE IF error.type = "JSONDecodeError" THEN "INVALID_JSON"
    ELSE "INVALID_REQUEST"

\* lines 268-288: response['error']
ErrorMember(error) ==
    IF IsRemoteProcedureCallError(error)
    THEN [code |-> error.code, message |-> error.message,
          data |-> error.data]
    ELSE [code |-> jsonrpc_error_code(error), message |-> error.message,
          data |-> error.type]

\* lines 239-264: the body of the try statement.  Gives response['id'], the
\* exception raised (NoError when none), and whether response['result'] was
\* set
Try(body, expected_method, behaviour) ==
    LET is_dict == body.text = "object"
        called == /\ is_dict /\ body.has_method
                  /\ body.method = expected_method
        id == IF called /\ body.has_id THEN "id" ELSE DefaultId
        outcome(error, has_result) ==
            [id |-> id, error |-> error, has_result |-> has_result]
    IN  IF body.form = "str" /\ body.text = "unparsable"
        THEN outcome(Raise("JSONDecodeError"), FALSE)
        ELSE IF ~called THEN outcome(NoError, FALSE)
        ELSE IF body.method \notin Exposed
        THEN outcome(Raise("AttributeError"), FALSE)
        ELSE IF body.params = "other" THEN outcome(Raise("TypeError"), FALSE)
        ELSE IF behaviour.raises THEN outcome(behaviour.error, FALSE)
        ELSE outcome(NoError, TRUE)

\* json.dumps(response): TypeError for a result it cannot serialize
json_dumps(response, behaviour) ==
    IF response.has_result /\ ~behaviour.serializable
    THEN [raised |-> "TypeError", text |-> <<>>]
    ELSE [raised |-> "ok", text |-> <<"json", response>>]

\* CommissaireService.on_message(body, message), on_<method> doing what
\* behaviour says.  Gives the exception caught, the response, what was put
\* on which queue, whether the message was acked, the calls made on the
\* reply queue and the message in their order, and the exception that left
\* on_message ("" when it returned)
CommissaireService_on_message(body, message, behaviour) ==
    LET expected_method == rsplit_1(message.routing_key)
        t == Try(body, expected_method.value, behaviour)
        response == [jsonrpc |-> "2.0", id |-> t.id,
                     has_result |-> t.has_result,
                     has_error |-> t.error # NoError,
                     error |-> IF t.error # NoError
                               THEN ErrorMember(t.error)
                               ELSE ErrorMember(NoError)]
        dumped == json_dumps(response, behaviour)
        done(caught, puts, acked, escaped) ==
            [op |-> "on_message", body |-> body, message |-> message,
             behaviour |-> behaviour, caught |-> caught,
             response |-> response, puts |-> puts, acked |-> acked,
             events |-> [i \in DOMAIN puts |-> "put"]
                        \o (IF acked THEN <<"ack">> ELSE <<>>),
             escaped |-> escaped]
    IN  IF expected_method.raised # "ok"
        THEN done(NoError, <<>>, FALSE, expected_method.raised)
        ELSE IF message.reply_to = ""
        THEN done(t.error, <<>>, TRUE, "")
        ELSE IF dumped.raised # "ok"
        THEN done(t.error, <<>>, FALSE, dumped.raised)
        ELSE done(t.error,
                  <<[queue |-> message.reply_to, payload |-> dumped.text]>>,
                  TRUE, "")

InitBus ==
    /\ manager = NewRegistry
    /\ service = NewRegistry
    /\ result = [op |-> "init"]
    /\ inflight = <<>>
    \* message bodies: a dict, or a str that json.loads turns into a dict, into
    \* a list, or does not parse; of a dict, the 'method', 'id' and 'params'
    \* members ('params' a dict, a list, neither, or absent).  Method names
    \* and routing keys are strings of characters: "p" is a method the
    \* service exposes as on_p, "x" one it does not
    /\ \E body \in
              [form : {"dict", "str"}, text : {"object"},
               has_method : BOOLEAN, method : {<<"p">>, <<"x">>},
               has_id : BOOLEAN,
               params : {"absent", "dict", "list", "other"}]
              \cup [form : {"str"}, text : {"array", "unparsable"},
                    has_method : {FALSE}, method : {<<"p">>},
                    has_id : {FALSE}, params : {"absent"}],
          \* message.delivery_info['routing_key'] (every binding of the
          \* services' queues has a dot) and message.properties['reply_to']
          \* ("" when the message has none)
          message \in
              [routing_key : {<<"s", ".", "p">>, <<"s", ".", "x">>,
                              <<"j", ".", "s", ".", "p">>},
               reply_to : {"", "q"}],
          \* what on_<method> does when called: it raises one of the errors
          \* it may raise, or it returns a value that json.dumps can or
          \* cannot serialize
          behaviour \in
              {[raises |-> FALSE, error |-> NoError, serializable |-> x] :
                   x \in BOOLEAN}
              \cup {[raises |-> TRUE, error |-> e, serializable |-> TRUE] :
                        e \in RemoteProcedureCallErrors
                              \cup {Raise("AttributeError"),
                                    Raise("JSONDecodeError"),
                                    Raise("TypeError"), Raise("KeyError"),
                                    Raise("ValidationError")}} :
          bus = [op |-> "delivered", body |-> body, message |-> message,
                 behaviour |-> behaviour]
    /\ watcher = <<>>
    /\ pool = <<>>
    /\ job = <<>>

\* the consumer hands the message delivered to on_message
OnMessage ==
    /\ bus.op = "delivered"
    /\ bus' = CommissaireService_on_message(bus.body, bus.message,
                                            bus.behaviour)
    /\ UNCHANGED <<manager, service, result, inflight, watcher, pool, job>>

NextBus == OnMessage

SpecBus == InitBus /\ [][NextBus]_vars

-----------------------------------------------------------------------------
(* WatcherService: records of the jobs.watcher queue taken one at a time,   *)
(* checked when due, and put back on the queue.  Time is in seconds.        *)

\* the clock of the model stops here
MaxTime == 150

\* timedelta(minutes=1), sleep(2) and sleep(10)
Minute == 60
ShortSleep == 2
LongSleep == 10

\* host addresses; self.last_address is None until a message was handled
Addresses == {"h1", "h2"}
None == ""

\* datetime.isoformat() and datetime.strptime(text, C.DATE_FORMAT): the text
\* of an instant, and the instant of a text
isoformat(instant) == [iso |-> instant]
strptime(text) == text.iso

\* WatcherRecord
WatcherRecord(address, last_check) ==
    [address |-> address, last_check |-> last_check]

\* record.to_json() and WatcherRecord(**json.loads(body))
to_json(record) == <<"json", record.address, record.last_check>>
from_json(body) == WatcherRecord(body[2], body[3])

\* what self._check(address) does when called: it returns or raises, after
\* some time
CheckBehaviours == [raises : BOOLEAN, takes : {0, 3}]

\* the test of line 69 with the bound included
Due_inclusive(last_check, utcnow) == strptime(last_check) <= utcnow - Minute

\* lines 69-70: last_check is before utcnow() - timedelta(minutes=1)
Due(last_check, utcnow) == strptime(last_check) < utcnow - Minute

\* a WatcherService just constructed, at a given time, with the records
\* waiting on its queue
NewWatcher(now, queue) ==
    [now |-> now, last_address |-> None, queue |-> queue,
     last |-> [op |-> "init"]]

\* on_message publishing the record inside the try statement: a check that
\* raises leaves the record off the queue
WatcherService_on_message_in_try(self, body, behaviour) ==
    LET record == from_json(body)
        due == Due(record.last_check, self.now)
        lost == due /\ behaviour.raises
        checked == self.now + behaviour.takes
        slept == IF self.last_address = record.address THEN LongSleep
                 ELSE ShortSleep
        record2 == IF due
                   THEN [record EXCEPT !.last_check = isoformat(checked)]
                   ELSE record
    IN  [now |-> IF due THEN checked ELSE self.now + slept,
         last_address |-> record.address,
         queue |-> IF lost THEN Tail(self.queue)
                   ELSE Append(Tail(self.queue), to_json(record2)),
         last |-> [op |-> "on_message", body |-> body, acked |-> TRUE,
                   utcnow |-> self.now,
                   last_address |-> self.last_address,
                   checks |-> IF due THEN <<record.address>> ELSE <<>>,
                   check_raised |-> due /\ behaviour.raises,
                   sleeps |-> IF due THEN <<>> ELSE <<slept>>,
                   events |-> IF lost THEN <<"ack", "_check">>
                              ELSE <<"ack", IF due THEN "_check" ELSE "sleep",
                                     "publish">>,
                   published |-> to_json(record2)]]

\* WatcherService.on_message(body, message), _check doing what behaviour
\* says.  last keeps the record received, the _check calls, the sleeps, the
\* body published, and the calls in their order.
WatcherService_on_message(self, body, behaviour) ==
    LET record == from_json(body)
        due == Due(record.last_check, self.now)
        checked == self.now + behaviour.takes
        slept == IF self.last_address = record.address THEN LongSleep
                 ELSE ShortSleep
        record2 == IF due
                   THEN [record EXCEPT !.last_check = isoformat(checked)]
                   ELSE record
    IN  [now |-> IF due THEN checked ELSE self.now + slept,
         last_address |-> record.address,
         queue |-> Append(Tail(self.queue), to_json(record2)),
         last |-> [op |-> "on_message", body |-> body, acked |-> TRUE,
                   utcnow |-> self.now,
                   last_address |-> self.last_address,
                   checks |-> IF due THEN <<record.address>> ELSE <<>>,
                   check_raised |-> due /\ behaviour.raises,
                   sleeps |-> IF due THEN <<>> ELSE <<slept>>,
                   events |-> <<"ack", IF due THEN "_check" ELSE "sleep",
                                "publish">>,
                   published |-> to_json(record2)]]

InitWatcher ==
    /\ manager = NewRegistry
    /\ service = NewRegistry
    /\ result = [op |-> "init"]
    /\ inflight = <<>>
    /\ bus = <<>>
    /\ \E now \in {Minute, Minute + 1},
          addresses \in {<<"h1">>, <<"h1", "h2">>, <<"h1", "h1">>} :
          \E checked \in [DOMAIN addresses -> {0, now}] :
             watcher = NewWatcher(now,
                           [i \in DOMAIN addresses |->
                               to_json(WatcherRecord(addresses[i],
                                           isoformat(checked[i])))])
    /\ pool = <<>>
    /\ job = <<>>

\* the consumer hands the first message of the queue to on_message
WatcherOnMessage ==
    /\ watcher.queue # <<>>
    /\ \E behaviour \in CheckBehaviours :
          LET w == WatcherService_on_message(watcher, Head(watcher.queue),
                                             behaviour)
          IN  /\ w.now <= MaxTime
              /\ watcher' = w
    /\ UNCHANGED <<manager, service, result, inflight, bus, pool, job>>

NextWatcher == WatcherOnMessage

SpecWatcher == InitWatcher /\ [][NextWatcher]_vars

-----------------------------------------------------------------------------
(* ServiceManager.run: process_count workers started, then a loop that      *)
(* passes over self._asyncs, replaces the workers that have finished, and   *)
(* sleeps.  A worker is the pending result apply_async returned for it; it  *)
(* finishes when run_service returns or raises, at any time.               *)

\* how many workers one manager starts before no further one is started
MaxStarted == 5

\* list.pop(idx)
pop(list, idx) ==
    [j \in 1..(Len(list) - 1) |-> IF j < idx THEN list[j] ELSE list[j + 1]]

\* list.index(x): the first position that holds x
index(list, x) == CHOOSE j \in DOMAIN list :
                      list[j] = x /\ \A k \in 1..(j - 1) : list[k] # x

\* ServiceManager._start_process(): one worker more, tracked last
_start_process(self) ==
    [self EXCEPT !.started = @ + 1,
                 !._asyncs = Append(@, self.started + 1)]

\* the replacement taking the result off the list only
Replace_pop_only(self, process_result) ==
    [self EXCEPT !._asyncs = pop(@, index(self._asyncs, process_result)),
                 !.removed = @ \cup {process_result}]

\* lines 137-139: the finished result popped and a new process started
Replace(self, process_result) ==
    _start_process(
        [self EXCEPT !._asyncs = pop(@, index(self._asyncs, process_result)),
                     !.removed = @ \cup {process_result}])

InitPool ==
    /\ manager = NewRegistry
    /\ service = NewRegistry
    /\ result = [op |-> "init"]
    /\ inflight = <<>>
    /\ bus = <<>>
    /\ watcher = <<>>
    \* the process_count values tried
    \* ServiceManager.__init__: nothing started, nothing tracked.  Workers are
    \* numbered in the order they are started; i is the position the for loop
    \* over _asyncs visits next; replaced counts the workers replaced in the
    \* pass under way, removed the workers popped so far
    /\ \E process_count \in {1, 2, 3} :
          pool = [_process_count |-> process_count, _asyncs |-> <<>>,
                  started |-> 0, ready |-> {}, pc |-> "start", i |-> 1,
                  replaced |-> 0, removed |-> {}]
    /\ job = <<>>

\* lines 129-130: one turn of the starting loop, and its end
StartProcess ==
    /\ pool.pc = "start"
    /\ pool' = IF pool.started < pool._process_count
               THEN _start_process(pool)
               ELSE [pool EXCEPT !.pc = "loop", !.i = 1]
    /\ UNCHANGED <<manager, service, result, inflight, bus, watcher, job>>

\* a worker process ends
Finish ==
    /\ \E w \in 1..pool.started :
          /\ w \notin pool.ready
          /\ pool' = [pool EXCEPT !.ready = @ \cup {w}]
    /\ UNCHANGED <<manager, service, result, inflight, bus, watcher, job>>

\* lines 132-139: one turn of the for loop over self._asyncs.  The list
\* iterator goes by position, on the list as it is now.
Visit ==
    /\ pool.pc = "loop" /\ pool.i <= Len(pool._asyncs)
    /\ LET process_result == pool._asyncs[pool.i]
       IN  IF process_result \in pool.ready
           THEN /\ pool.started < MaxStarted
                /\ pool' = [Replace(pool, process_result) EXCEPT
                                !.i = @ + 1, !.replaced = @ + 1]
           ELSE pool' = [pool EXCEPT !.i = @ + 1]
    /\ UNCHANGED <<manager, service, result, inflight, bus, watcher, job>>

\* line 140: the pass is over; sleep(1), then the next pass
Sleep ==
    /\ pool.pc = "loop" /\ pool.i > Len(pool._asyncs)
    /\ pool' = [pool EXCEPT !.i = 1, !.replaced = 0]
    /\ UNCHANGED <<manager, service, result, inflight, bus, watcher, job>>

NextPool == StartProcess \/ Finish \/ Visit \/ Sleep

SpecPool == InitPool /\ [][NextPool]_vars

\* the loop of run keeps running: while True has no exit
SpecPoolFair == SpecPool /\ WF_vars(Visit) /\ WF_vars(Sleep)

-----------------------------------------------------------------------------
(* StoreHandlerManager and StorageService side by side: every registration  *)
(* and every call is made on the two of them, the manager given the handler *)
(* class, the config and the model types the service resolved.              *)

\* StoreHandlerManager.list(model_instance)
\* value is getattr(model_instance, model_instance._list_attr, []) of what
\* the primitive returned
StoreHandlerManager_list(self, model_instance, behaviour) ==
    LET h == _get_handler(self, model_instance)
        listed == [model_instance EXCEPT !.items = behaviour.items]
    IN  IF h.raised # "ok"
        THEN [self |-> h.self, calls |-> <<>>, value |-> <<>>,
              raised |-> h.raised]
        ELSE IF behaviour.raises
        THEN [self |-> h.self,
              calls |-> <<Call("_list", h.handler, model_instance)>>,
              value |-> <<>>, raised |-> "HandlerError"]
        ELSE [self |-> h.self,
              calls |-> <<Call("_list", h.handler, model_instance)>>,
              value |-> listed.items, raised |-> "ok"]

\* how many handler instances each of the two constructs
MaxPairMade == 2

\* a call made on the two: the registries after it, and what result keeps
\* of it
Both(op, input, m, s) ==
    /\ Len(m.self.made) <= MaxPairMade /\ Len(s.self.made) <= MaxPairMade
    /\ manager' = m.self
    /\ service' = s.self
    /\ result' = [op |-> op, model |-> input,
                  raised |-> m.raised, calls |-> m.calls, value |-> m.value,
                  service |-> [raised |-> s.raised, calls |-> s.calls,
                               value |-> s.value],
                  before |-> manager]
    /\ UNCHANGED peers

\* get_handler, as a call that invokes no primitive and returns the handler
Resolved(r) ==
    [self |-> r.self, raised |-> r.raised, calls |-> <<>>,
     value |-> r.handler]

\* a storage_handlers entry registered with the two: its selector names a
\* store handler module and each of its patterns matches a model type; the
\* manager is given the class, the config and the model types that
\* _register_store_handler resolves
RegisterPair ==
    /\ \E config \in
          {StoreHandlerConfig("etcd", name, TRUE, models) :
              name \in {<<>>, <<"a">>, <<"a", " ">>},
              models \in {<<>>, <<<<"H", "*">>>>, <<<<"*">>>>}}
          \cup {StoreHandlerConfig("custodia", <<>>, TRUE, <<<<"C", "*">>>>),
                StoreHandlerConfig("custodia", <<>>, FALSE, <<>>),
                [StoreHandlerConfig("etcd", <<>>, TRUE, <<>>)
                     EXCEPT !.valid = FALSE]} :
          LET m == register_store_handler(
                       manager, import_plugin(config.type), Popped(config),
                       MatchPatterns(IF config.has_models THEN config.models
                                     ELSE <<<<"*">>>>, {}).matched_types)
              s == _register_store_handler(service, config)
          IN  /\ Cardinality(DOMAIN m.self._definitions_by_name) <= MaxDefs
              /\ Cardinality(DOMAIN s.self._definitions_by_name) <= MaxDefs
              /\ manager' = m.self
              /\ service' = s.self
              /\ result' = [op |-> "register", config |-> config,
                            raised |-> m.raised, calls |-> <<>>,
                            value |-> m.why,
                            service |-> [raised |-> s.raised, calls |-> <<>>,
                                         value |-> s.why],
                            before |-> manager]
    /\ UNCHANGED peers

\* the records the calls are made for: of a plain type, and the collection
PairModels ==
    DispatchModels \cup {NewEmpty(Hosts).model}

GetHandlerPair ==
    \E model \in PairModels :
        Both("get_handler", model, Resolved(_get_handler(manager, model)),
             Resolved(StorageService_get_handler(service, model)))

SavePair ==
    \E model_instance \in DispatchModels, behaviour \in Behaviours :
        Both("save", model_instance, save(manager, model_instance, behaviour),
             _save_model(service, model_instance, behaviour))

GetPair ==
    \E model_instance \in DispatchModels, behaviour \in Behaviours :
        Both("get", model_instance, get(manager, model_instance, behaviour),
             _get_model(service, model_instance, behaviour))

DeletePair ==
    \E model_instance \in DispatchModels, behaviour \in Behaviours :
        Both("delete", model_instance,
             delete(manager, model_instance, behaviour),
             _delete_model(service, model_instance, behaviour))

ListPair ==
    \E model_instance \in {NewEmpty(Hosts).model},
       behaviour \in ListBehaviours :
        Both("list", model_instance,
             StoreHandlerManager_list(manager, model_instance, behaviour),
             _list_models(service, model_instance, behaviour))

NextPair ==
    RegisterPair \/ GetHandlerPair \/ SavePair \/ GetPair \/ DeletePair
    \/ ListPair

SpecPair == Init /\ [][NextPair]_vars

-----------------------------------------------------------------------------
(* ClusterExecService._execute: the operation record saved at the start,    *)
(* the hosts of the cluster taken one after the other, the record saved as  *)
(* each host goes in process and is finished, and the final record.         *)

\* longest hostset tried
MaxHosts == 2

\* self.request('storage.save', ...) with model_instance.to_json() as the
\* model instance is now
request_save(self) ==
    [self EXCEPT !.saves = Append(@, self.model_instance)]

\* the for statement taking the next address, or the loop's end
NextHost(self) ==
    [self EXCEPT !.pc = IF self.i <= Len(self.hostset) THEN "get_host"
                        ELSE "final_save"]

\* on_upgrade, on_restart, on_deploy: the model instance _execute is given,
\* and the locals of _execute.  hostset is cluster.hostset as the store
\* returns it, a list of addresses; outcomes says for each turn of the loop
\* whether its requests and its remote command return or which of them
\* raises, run the same for the requests before and after the loop; i is
\* the position of the for loop in hostset, saves the records storage.save
\* took, attempted the addresses the remote command was run on
InitExec ==
    /\ manager = NewRegistry
    /\ service = NewRegistry
    /\ result = [op |-> "init"]
    /\ inflight = <<>>
    /\ bus = <<>>
    /\ watcher = <<>>
    /\ pool = <<>>
    /\ \E hostset \in ListsUpTo({"h1", "h2"}, MaxHosts),
          run \in [first_save : {"ok", "raises"},
                   get_cluster : {"ok", "raises"},
                   final_save : {"ok", "raises"}] :
          \E outcomes \in [DOMAIN hostset ->
                              {"ok", "get_raises", "save_in_process_raises",
                               "command_raises", "save_finished_raises"}] :
             job = [pc |-> "first_save", hostset |-> hostset,
                    outcomes |-> outcomes, run |-> run, i |-> 1,
                    end_status |-> "finished",
                    model_instance |-> [status |-> "in_process",
                                        in_process |-> <<>>,
                                        finished |-> <<>>],
                    saves |-> <<>>, attempted |-> <<>>, raised |-> "ok"]

\* _execute takes its next step
Step(pc, next) ==
    /\ job.pc = pc
    /\ job' = next
    /\ UNCHANGED <<manager, service, result, inflight, bus, watcher, pool>>

\* lines 72-101: the initial status saved
ExecFirstSave ==
    Step("first_save",
         IF job.run.first_save = "raises"
         THEN [job EXCEPT !.pc = "raised", !.raised = "first_save"]
         ELSE [request_save(job) EXCEPT !.pc = "get_cluster"])

\* lines 105-118: the cluster fetched
ExecGetCluster ==
    Step("get_cluster",
         IF job.run.get_cluster = "raises"
         THEN [job EXCEPT !.pc = "raised", !.raised = "get_cluster"]
         ELSE NextHost(job))

\* lines 127-141: the host fetched
ExecGetHost ==
    Step("get_host",
         IF job.outcomes[job.i] = "get_raises"
         THEN [job EXCEPT !.pc = "raised", !.raised = "get_host"]
         ELSE [job EXCEPT !.pc = "in_process"])

\* lines 150-161: the address appended to in_process and the record saved
ExecSaveInProcess ==
    Step("in_process",
         LET appended == [job EXCEPT !.model_instance.in_process =
                                         Append(@, job.hostset[job.i])]
         IN  IF job.outcomes[job.i] = "save_in_process_raises"
             THEN [appended EXCEPT !.pc = "raised",
                                   !.raised = "save_in_process"]
             ELSE [request_save(appended) EXCEPT !.pc = "command"])

\* lines 163-174: the remote command; a failure sets end_status and breaks
ExecRunCommand ==
    Step("command",
         LET ran == [job EXCEPT !.attempted = Append(@, job.hostset[job.i])]
         IN  IF job.outcomes[job.i] = "command_raises"
             THEN [ran EXCEPT !.end_status = "failed", !.pc = "final_save"]
             ELSE [ran EXCEPT !.pc = "finished"])

\* lines 177-196: the address appended to the finished hosts, taken off
\* in_process at the first place it is found, and the record saved
ExecSaveFinished ==
    Step("finished",
         LET address == job.hostset[job.i]
             in_process == job.model_instance.in_process
             moved == [job EXCEPT
                          !.model_instance.finished = Append(@, address),
                          !.model_instance.in_process =
                              IF \E j \in DOMAIN in_process :
                                     in_process[j] = address
                              THEN pop(in_process, index(in_process, address))
                              ELSE in_process]
         IN  IF job.outcomes[job.i] = "save_finished_raises"
             THEN [moved EXCEPT !.pc = "raised", !.raised = "save_finished"]
             ELSE NextHost([request_save(moved) EXCEPT !.i = @ + 1]))

\* lines 204-220: status set to end_status and the record saved; a save that
\* raises is logged
ExecFinalSave ==
    Step("final_save",
         LET ended == [job EXCEPT !.model_instance.status = job.end_status]
         IN  IF job.run.final_save = "raises"
             THEN [ended EXCEPT !.pc = "done"]
             ELSE [request_save(ended) EXCEPT !.pc = "done"])

NextExec ==
    \/ ExecFirstSave \/ ExecGetCluster \/ ExecGetHost \/ ExecSaveInProcess
    \/ ExecRunCommand \/ ExecSaveFinished \/ ExecFinalSave

SpecExec == InitExec /\ [][NextExec]_vars

-----------------------------------------------------------------------------
(* Properties of the StoreHandlerManager *)

\* every definition either index of a registry holds
AllDefinitions(self) ==
    {self._definitions_by_name[n] : n \in DOMAIN self._definitions_by_name}
    \cup {self._definitions_by_model_type[mt] :
              mt \in DOMAIN self._definitions_by_model_type}

\* the definition a record routes to, by the rule of the contract: a Host
\* with a non-empty trimmed source goes by name, everything else by type
RoutesByName(model) == model.type = Host /\ strip(model.source) # <<>>

Resolves(self, model) ==
    IF RoutesByName(model)
    THEN strip(model.source) \in DOMAIN self._definitions_by_name
    ELSE model.type \in DOMAIN self._definitions_by_model_type

\* the handler instances a call constructed
Constructed(self) == Len(self.made) - Len(result.before.made)

\* C1: after any sequence of register calls no model type is listed by two
\* definitions of the registry, and a register call that names a model type
\* some definition already owns raises ConfigurationError.
C1_OneOwnerPerModelType ==
    /\ \A d1, d2 \in AllDefinitions(manager) :
           d1 # d2 => d1.model_types \cap d2.model_types = {}
    /\ (/\ result.op = "register"
        /\ \E mt \in result.model_types :
               mt \in DOMAIN result.before._definitions_by_model_type)
       => result.raised = "ConfigurationError"

\* a second definition was registered beside a first that owns a model type,
\* and a later call claiming an owned model type has been turned down
C1_Witness ==
    /\ result.op = "register"
    /\ result.why = "model_type"
    /\ Cardinality(DOMAIN manager._definitions_by_name) = 2
    /\ DOMAIN manager._definitions_by_model_type # {}

\* C2: after any sequence of register calls no two definitions of the
\* registry have the same name, and a register call whose trimmed, non-empty
\* name is the name of an existing definition raises ConfigurationError.
C2_UniqueNames ==
    /\ \A d1, d2 \in AllDefinitions(manager) :
           d1 # d2 => strip(d1.config.name) # strip(d2.config.name)
    /\ (/\ result.op = "register"
        /\ strip(result.name) # <<>>
        /\ strip(result.name) \in DOMAIN result.before._definitions_by_name)
       => result.raised = "ConfigurationError"

\* a name that differs from a registered one only by whitespace was refused
C2_Witness ==
    /\ result.op = "register"
    /\ result.why = "name"
    /\ result.name # strip(result.name)
    /\ strip(result.name) \in DOMAIN manager._definitions_by_name

\* C3: a register call that raises ConfigurationError leaves both definition
\* indices and both instance caches as they were.
C3_FailedRegisterChangesNothing ==
    (result.op = "register" /\ result.raised = "ConfigurationError")
    => manager = result.before

\* a call was refused for an owned model type although another model type of
\* the same call was free, with a handler instance already cached
C3_Witness ==
    /\ result.op = "register"
    /\ result.why = "model_type"
    /\ \E mt \in result.model_types :
           mt \notin DOMAIN manager._definitions_by_model_type
    /\ DOMAIN manager._handlers_by_name # {}

\* the validator and the name check have refused calls too
C3_WitnessOtherCauses ==
    result.op = "register" /\ result.why \in {"check_config", "name"}

\* C4: a get_handler call that follows a successful get_handler call for a
\* record of the same model type (and the same source, for a Host) returns
\* the same handler instance and constructs none.
C4_SecondCallSameInstance ==
    [][(/\ result.op = "get_handler" /\ result.raised = "ok"
        /\ result'.op = "get_handler"
        /\ result'.model.type = result.model.type
        /\ result'.model.source = result.model.source)
       => (/\ result'.raised = "ok"
           /\ result'.handler = result.handler
           /\ manager'.made = manager.made)]_vars

\* C5: get_handler on a Host whose trimmed source names a definition returns
\* an instance of that definition, whoever owns Host; on a Host with an empty
\* or blank source, an instance of the definition that owns Host; on a Host
\* whose source names no definition it raises KeyError.
C5_HostSourceOverride ==
    (result.op = "get_handler" /\ result.model.type = Host) =>
        LET X == strip(result.model.source)
            was == result.before
        IN  /\ (X # <<>> /\ X \in DOMAIN was._definitions_by_name) =>
                   /\ result.raised = "ok"
                   /\ result.handler \in DOMAIN manager.made
                   /\ manager.made[result.handler] =
                          was._definitions_by_name[X]
            /\ (X = <<>> /\ Host \in DOMAIN was._definitions_by_model_type) =>
                   /\ result.raised = "ok"
                   /\ result.handler \in DOMAIN manager.made
                   /\ manager.made[result.handler] =
                          was._definitions_by_model_type[Host]
            /\ (X # <<>> /\ X \notin DOMAIN was._definitions_by_name) =>
                   result.raised = "KeyError"

\* the named definition was used although another definition owns Host and
\* its instance was cached
C5_Witness ==
    /\ result.op = "get_handler" /\ result.model.type = Host
    /\ result.raised = "ok"
    /\ strip(result.model.source) \in DOMAIN manager._definitions_by_name
    /\ Host \in DOMAIN result.before._handlers_by_model_type
    /\ manager._definitions_by_model_type[Host] # manager.made[result.handler]

\* C6: a get_handler call for a record that resolves to no definition raises
\* KeyError, returns no handler, constructs none and leaves the registry as
\* it was; no other get_handler call raises KeyError.
C6_KeyErrorChangesNothing ==
    (result.op = "get_handler"
     /\ (result.raised = "KeyError" \/ ~Resolves(result.before, result.model)))
    => (/\ result.raised = "KeyError"
        /\ ~Resolves(result.before, result.model)
        /\ result.handler = NoHandler
        /\ manager = result.before)

\* KeyError for an unknown source while the Host handler is cached
C6_Witness ==
    /\ result.op = "get_handler" /\ result.raised = "KeyError"
    /\ result.model.type = Host
    /\ strip(result.model.source) # <<>>
    /\ Host \in DOMAIN manager._handlers_by_model_type

\* C8 as claimed: save of a record that fails validation raises
\* ValidationError and invokes no handler primitive.
C8_InvalidSaveRaisesValidationError ==
    (result.op = "save" /\ ~_validate(result.model)) =>
        (result.raised = "ValidationError" /\ result.calls = <<>>)

\* what save does with a record that fails validation: it invokes no handler
\* primitive; it raises ValidationError when the record resolves to a handler
\* definition, and KeyError when it resolves to none.
C8_InvalidSaveNeverSaves ==
    (result.op = "save" /\ ~_validate(result.model)) =>
        /\ result.calls = <<>>
        /\ result.value = NoModel
        /\ result.raised =
               IF Resolves(result.before, result.model)
               THEN "ValidationError" ELSE "KeyError"

\* an invalid record with a resolvable handler was turned down, after the
\* handler instance had been constructed for it
C8_Witness ==
    /\ result.op = "save" /\ ~_validate(result.model)
    /\ result.raised = "ValidationError"
    /\ Constructed(manager) = 1

\* C9: when get resolves a handler it invokes the handler's get primitive
\* once, with the record given; it then validates the record the handler
\* returned: an invalid one raises ValidationError and nothing is returned, a
\* valid one is returned, whatever the validity of the record given.
C9_GetValidatesReturnedRecord ==
    (result.op = "get" /\ Resolves(result.before, result.model)) =>
        /\ Len(result.calls) = 1
        /\ result.calls[1].primitive = "_get"
        /\ result.calls[1].model = result.model
        /\ manager.made[result.calls[1].handler] \in AllDefinitions(manager)
        /\ ~result.behaviour.raises =>
               IF _validate(Returned(result.model, result.behaviour))
               THEN /\ result.raised = "ok"
                    /\ result.value = Returned(result.model, result.behaviour)
               ELSE /\ result.raised = "ValidationError"
                    /\ result.value = NoModel

\* a valid record was asked for and the handler returned an invalid one
C9_Witness ==
    /\ result.op = "get" /\ result.raised = "ValidationError"
    /\ _validate(result.model)
    /\ Len(result.calls) = 1

\* an invalid record was asked for and the handler returned a valid one
C9_WitnessInvalidInput ==
    /\ result.op = "get" /\ result.raised = "ok"
    /\ ~_validate(result.model)

-----------------------------------------------------------------------------
(* Properties of the StorageService *)

\* the last call was a storage request
IsRequest == result.op \in {"on_save", "on_get", "on_delete"}

\* element i of the request data cannot be built into a model instance
FailsToBuild(i) ==
    _build_model(result.type_name, result.data[i]).raised # "ok"

\* the model instance element i of the request data builds into
Built(i) == _build_model(result.type_name, result.data[i]).model

\* why element i of a save request whose elements all build cannot be saved,
\* "ok" when it can: it resolves to no handler definition, it is invalid, or
\* the handler's save primitive raises for it
SaveFailure(i) ==
    IF ~Resolves(result.before, Built(i)) THEN "KeyError"
    ELSE IF ~_validate(Built(i)) THEN "ValidationError"
    ELSE IF result.behaviours[i].raises THEN "HandlerError"
    ELSE "ok"

\* the elements of a save request that cannot be saved
SaveFailures == {i \in DOMAIN result.data : SaveFailure(i) # "ok"}

\* the least member of a non-empty set of positions
First(S) == CHOOSE i \in S : \A j \in S : i <= j

\* C7: a list-form save, get or delete with an element that cannot be built
\* raises, and has invoked no handler primitive for any element.
C7_BadElementNoHandlerCall ==
    (IsRequest /\ result.is_list
     /\ \E i \in DOMAIN result.data : FailsToBuild(i))
    => (/\ result.raised # "ok"
        /\ result.calls = <<>>
        /\ result.value = <<>>)

\* a list-form save was refused for its second element although its first
\* element was a valid record with a handler
C7_Witness ==
    /\ result.op = "on_save" /\ result.is_list
    /\ Len(result.data) >= 2
    /\ ~FailsToBuild(1) /\ FailsToBuild(2)
    /\ Resolves(service, Built(1)) /\ _validate(Built(1))
    /\ result.calls = <<>>

\* the same for get and for delete
C7_WitnessGet ==
    /\ result.op = "on_get" /\ result.is_list
    /\ Len(result.data) >= 2
    /\ ~FailsToBuild(1) /\ FailsToBuild(2)
    /\ Resolves(service, Built(1))

C7_WitnessDelete ==
    /\ result.op = "on_delete" /\ result.is_list
    /\ Len(result.data) >= 2
    /\ ~FailsToBuild(1) /\ FailsToBuild(2)
    /\ Resolves(service, Built(1))

\* each way of failing to build has been met
C7_WitnessUnparsable ==
    /\ IsRequest /\ result.is_list /\ result.raised = "JSONDecodeError"

C7_WitnessNonObject ==
    /\ IsRequest /\ result.is_list
    /\ \E i \in DOMAIN result.data : result.data[i].text = "nonobject"

C7_WitnessMissingFields ==
    /\ IsRequest /\ result.is_list
    /\ \E i \in DOMAIN result.data : ~result.data[i].required

\* C10: in a list-form save whose elements all build, the first element that
\* cannot be saved ends the call with its error: the save primitive has been
\* invoked once for each earlier element, in order, once for the failing
\* element only when it is the primitive that raised, and for no later
\* element; no list is returned.
C10_FirstFailureStopsSave ==
    (/\ result.op = "on_save" /\ result.is_list
     /\ \A i \in DOMAIN result.data : ~FailsToBuild(i)
     /\ SaveFailures # {})
    => LET k == First(SaveFailures)
           invoked == IF SaveFailure(k) = "HandlerError" THEN k ELSE k - 1
       IN  /\ result.raised = SaveFailure(k)
           /\ result.value = <<>>
           /\ Len(result.calls) = invoked
           /\ \A i \in 1..invoked :
                  /\ result.calls[i].primitive = "_save"
                  /\ result.calls[i].model = Built(i)

\* the first element of a list failed, and a later element that could have
\* been saved was left alone
C10_Witness ==
    /\ result.op = "on_save" /\ result.is_list
    /\ \A i \in DOMAIN result.data : ~FailsToBuild(i)
    /\ SaveFailures = {1}
    /\ Len(result.data) >= 2
    /\ Len(result.calls) <= 1

\* each kind of failure has stopped a list at its first element
C10_WitnessValidation ==
    C10_Witness /\ result.raised = "ValidationError"

C10_WitnessResolution ==
    C10_Witness /\ result.raised = "KeyError"
    /\ DOMAIN service._handlers_by_model_type # {}

C10_WitnessPrimitive ==
    C10_Witness /\ result.raised = "HandlerError" /\ Len(result.calls) = 1

\* why element i of a delete request whose elements all build cannot be
\* deleted, "ok" when it can
DeleteFailure(i) ==
    IF ~Resolves(result.before, Built(i)) THEN "KeyError"
    ELSE IF result.behaviours[i].raises THEN "HandlerError"
    ELSE "ok"

\* the elements of a save or delete request that fail
Failures ==
    {i \in DOMAIN result.data :
         IF result.op = "on_save" THEN SaveFailure(i) # "ok"
         ELSE DeleteFailure(i) # "ok"}

\* the primitive a request invokes
Primitive ==
    CASE result.op = "on_save" -> "_save"
      [] result.op = "on_get" -> "_get"
      [] result.op = "on_delete" -> "_delete"

\* C11: when element k of a list-form save or delete fails after the earlier
\* elements completed their handler operation, the call has invoked the
\* primitive once for each earlier element and made no other handler call for
\* them: no delete after a save, no save after a delete, nothing repeated.
C11_NoCompensatingCall ==
    (/\ result.op \in {"on_save", "on_delete"} /\ result.is_list
     /\ \A i \in DOMAIN result.data : ~FailsToBuild(i)
     /\ Failures # {})
    => LET k == First(Failures)
       IN  /\ result.raised # "ok"
           /\ Len(result.calls) \in {k - 1, k}
           /\ \A j \in DOMAIN result.calls :
                  /\ result.calls[j].primitive = Primitive
                  /\ result.calls[j].model = Built(j)

\* the second element of a list-form save failed after the first was saved
C11_Witness ==
    /\ result.op = "on_save" /\ result.is_list
    /\ \A i \in DOMAIN result.data : ~FailsToBuild(i)
    /\ Failures = {2}
    /\ Len(result.calls) >= 1
    /\ result.calls[1].primitive = "_save"

\* the second element of a list-form delete failed after the first was deleted
C11_WitnessDelete ==
    /\ result.op = "on_delete" /\ result.is_list
    /\ \A i \in DOMAIN result.data : ~FailsToBuild(i)
    /\ Failures = {2}
    /\ Len(result.calls) >= 1
    /\ result.calls[1].primitive = "_delete"

\* C12: a successful list-form save or get of n elements has invoked the
\* handler primitive once per element, in input order, and returns n
\* representations, the i-th being that of the record the handler returned
\* for the i-th element.
C12_OnePrimitivePerElementInOrder ==
    (/\ result.op \in {"on_save", "on_get"} /\ result.is_list
     /\ result.raised = "ok")
    => LET n == Len(result.data)
       IN  /\ Len(result.calls) = n
           /\ Len(result.value) = n
           /\ \A i \in 1..n :
                  /\ result.calls[i].primitive = Primitive
                  /\ result.calls[i].model = Built(i)
                  /\ result.value[i] =
                         to_dict(Returned(Built(i), result.behaviours[i]))

\* a list of two was saved whose handler returned two different records
C12_Witness ==
    /\ result.op = "on_save" /\ result.is_list /\ result.raised = "ok"
    /\ Len(result.value) = 2
    /\ result.value[1] # result.value[2]

\* a list of two different records was read
C12_WitnessGet ==
    /\ result.op = "on_get" /\ result.is_list /\ result.raised = "ok"
    /\ Len(result.value) = 2
    /\ result.value[1] # result.value[2]

\* why element i of a get request whose elements all build cannot be read,
\* "ok" when it can
GetFailure(i) ==
    IF ~Resolves(result.before, Built(i)) THEN "KeyError"
    ELSE IF result.behaviours[i].raises THEN "HandlerError"
    ELSE IF ~_validate(Returned(Built(i), result.behaviours[i]))
    THEN "ValidationError"
    ELSE "ok"

\* every element of the request is valid and every handler call succeeds
AllSucceed ==
    \A i \in DOMAIN result.data :
        /\ ~FailsToBuild(i)
        /\ CASE result.op = "on_save" -> SaveFailure(i) = "ok"
             [] result.op = "on_get" -> GetFailure(i) = "ok"
             [] result.op = "on_delete" -> DeleteFailure(i) = "ok"

\* one request of the service, by the name of its handler
Request(op, self, model_type_name, model_json_data, is_list, behaviours) ==
    CASE op = "on_save" ->
             on_save(self, model_type_name, model_json_data, is_list,
                     behaviours)
      [] op = "on_get" ->
             on_get(self, model_type_name, model_json_data, is_list,
                    behaviours)
      [] op = "on_delete" ->
             on_delete(self, model_type_name, model_json_data, is_list,
                       behaviours)

\* the elements of data requested one at a time, each as a single element,
\* from the service as done leaves it: the service after the last request,
\* every primitive invoked, and the results one after the other
RECURSIVE OneByOne(_, _, _, _, _)
OneByOne(op, model_type_name, data, behaviours, done) ==
    IF data = <<>> \/ done.raised # "ok" THEN done
    ELSE LET r == Request(op, done.self, model_type_name, <<Head(data)>>,
                          FALSE, <<Head(behaviours)>>)
         IN  OneByOne(op, model_type_name, Tail(data), Tail(behaviours),
                      [self |-> r.self, calls |-> done.calls \o r.calls,
                       value |-> done.value \o r.value,
                       raised |-> r.raised])

\* C13: when every element is valid and every handler call succeeds, a save,
\* get or delete of a list does what the same operation does when called once
\* per element, in order: the same primitives are invoked on the same
\* handlers, the registry and the caches end up the same, and the list
\* returned is the list of the single results.
C13_ListEqualsSingleCalls ==
    (IsRequest /\ result.is_list /\ AllSucceed)
    => LET one == OneByOne(result.op, result.type_name, result.data,
                           result.behaviours,
                           [self |-> result.before, calls |-> <<>>,
                            value |-> <<>>, raised |-> "ok"])
       IN  /\ result.raised = "ok"
           /\ one.raised = "ok"
           /\ result.calls = one.calls
           /\ service = one.self
           /\ result.value = one.value

\* a list of two different records was deleted, on two handlers, one of
\* which the call constructed
C13_Witness ==
    /\ result.op = "on_delete" /\ result.is_list /\ AllSucceed
    /\ Len(result.calls) = 2
    /\ result.calls[1].model # result.calls[2].model
    /\ result.calls[1].handler # result.calls[2].handler
    /\ Constructed(service) >= 1

\* lists of two different records were saved and read
C13_WitnessSave ==
    /\ result.op = "on_save" /\ result.is_list /\ AllSucceed
    /\ Len(result.value) = 2 /\ result.value[1] # result.value[2]

C13_WitnessGet ==
    /\ result.op = "on_get" /\ result.is_list /\ AllSucceed
    /\ Len(result.value) = 2 /\ result.value[1] # result.value[2]

\* the empty list query of a collection model type
EmptyQuery(model_type) ==
    [type |-> model_type, source |-> <<>>, key |-> "k1", items |-> <<>>]

\* C14: list on a collection model type that resolves to a handler invokes
\* that handler's list primitive once, with an empty list query, and when
\* the handler returns the collection filled with N records it returns the N
\* representations of these records, in the order of the collection.
C14_ListReturnsCollectionInOrder ==
    (/\ result.op = "on_list" /\ result.type_name \in CollectionTypes
     /\ Resolves(result.before, EmptyQuery(result.type_name)))
    => /\ Len(result.calls) = 1
       /\ result.calls[1].primitive = "_list"
       /\ result.calls[1].model = EmptyQuery(result.type_name)
       /\ service.made[result.calls[1].handler] =
              result.before._definitions_by_model_type[result.type_name]
       /\ ~result.behaviour.raises =>
              /\ result.raised = "ok"
              /\ Len(result.value) = Len(result.behaviour.items)
              /\ \A i \in DOMAIN result.value :
                     result.value[i] = to_dict(result.behaviour.items[i])

\* two different records were listed
C14_Witness ==
    /\ result.op = "on_list" /\ result.raised = "ok"
    /\ Len(result.value) = 2
    /\ result.value[1] # result.value[2]

\* the fields of a mapping completed with the defaults of the optional
\* fields it omits
Completed(data) ==
    [key |-> data.key,
     source |-> IF "source" \in data.given THEN data.source
                ELSE DefaultSource]

\* C15: when the handler's save primitive returns its input unchanged, save
\* of a valid field mapping, given as a mapping or as the JSON text of one,
\* returns the fields given completed with the default of every optional
\* field omitted.
C15_SaveReturnsInputWithDefaults ==
    (/\ result.op = "on_save" /\ ~result.is_list
     /\ AllSucceed
     /\ Returned(Built(1), result.behaviours[1]) = Built(1))
    => /\ result.raised = "ok"
       /\ result.value = <<Completed(result.data[1])>>

\* a mapping given as JSON text, with its optional field, was saved
C15_Witness ==
    /\ result.op = "on_save" /\ ~result.is_list /\ result.raised = "ok"
    /\ result.data[1].form = "str"
    \* the optional field of a Host that routing looks at, and its default
    /\ result.data[1].given = {"source"}
    /\ result.value[1].source # DefaultSource

\* a mapping that omits its optional field was saved
C15_WitnessOmitted ==
    /\ result.op = "on_save" /\ ~result.is_list /\ result.raised = "ok"
    /\ result.data[1].form = "dict"
    /\ result.data[1].given = {}
    /\ result.value[1].source = DefaultSource

-----------------------------------------------------------------------------
(* Properties of the registration from configuration data *)

\* the patterns of a configuration: 'models', or its default
PatternsOf(config) ==
    IF config.has_models THEN config.models ELSE <<<<"*">>>>

\* a pattern with a glob character
IsWildcard(pattern) ==
    \E i \in DOMAIN pattern : pattern[i] \in {"*", "?", "["}

\* the secret model types a configuration names in full
NamedSecrets(config) ==
    {mt \in SecretModelTypes :
         \E i \in DOMAIN PatternsOf(config) :
             PatternsOf(config)[i] = TypeName(mt)}

\* a configuration whose patterns are all wildcards
OnlyWildcards(config) ==
    \A i \in DOMAIN PatternsOf(config) : IsWildcard(PatternsOf(config)[i])

\* a configuration whose patterns are the names of secret model types
OnlySecrets(config) ==
    /\ PatternsOf(config) # <<>>
    /\ \A i \in DOMAIN PatternsOf(config) :
           \E mt \in SecretModelTypes : PatternsOf(config)[i] = TypeName(mt)

\* the model types the last registration gave to its definition
NewlyOwned ==
    DOMAIN service._definitions_by_model_type
        \ DOMAIN result.before._definitions_by_model_type

\* C16: a registration through wildcard patterns gives its definition no
\* secret model type, and after wildcard registrations only, the explicit
\* registration of secret model types meets no model type conflict.
C16_WildcardNeverClaimsSecret ==
    (result.op = "_register_store_handler") =>
        /\ result.raised = "ok" =>
               NewlyOwned \cap SecretModelTypes \subseteq
                   NamedSecrets(result.config)
        /\ (/\ result.config.is_dict /\ OnlySecrets(result.config)
            /\ \A i \in DOMAIN result.accepted :
                   i < Len(result.accepted) \/ result.raised # "ok"
                       => OnlyWildcards(result.accepted[i]))
           => result.why # "model_type"

\* C17: a registration whose models name a secret model type is refused
\* with ConfigurationError and registers nothing.
C17_ExplicitSecretRejected ==
    (/\ result.op = "_register_store_handler"
     /\ result.config.is_dict /\ result.config.has_type
     /\ NamedSecrets(result.config) # {})
    => (result.raised = "ConfigurationError" /\ service = result.before)

\* a record of host credentials
Creds == [type |-> HostCreds, source |-> <<>>, key |-> "k1"]

\* C18: in a constructed StorageService the secret model types are owned by
\* a Custodia definition whatever storage_handlers holds, and get_handler on
\* a HostCreds record returns a CustodiaStoreHandler instance.
C18_BuiltinCustodiaOwnsSecrets ==
    LET h == StorageService_get_handler(service, Creds)
    IN  /\ \A mt \in SecretModelTypes :
               /\ mt \in DOMAIN service._definitions_by_model_type
               /\ service._definitions_by_model_type[mt].handler_type =
                      "CustodiaStoreHandler"
        /\ h.raised = "ok"
        /\ h.self.made[h.handler].handler_type = "CustodiaStoreHandler"

-----------------------------------------------------------------------------
(* Properties of the names register_store_handler resolves *)

\* the least k >= 1 for which module-k names no definition
LeastFreeSuffix(module, taken) ==
    CHOOSE k \in 1..(Cardinality(taken) + 1) :
        /\ FormatName(module, k) \notin taken
        /\ \A j \in 1..(k - 1) : FormatName(module, j) \in taken

\* the name the contract derives for a handler type's module
DerivedName(module, taken) ==
    IF module \notin taken THEN module
    ELSE FormatName(module, LeastFreeSuffix(module, taken))

\* C19: a register call with no name, or a name that is blank, whose config
\* the handler type accepts, resolves the name M of the handler type's
\* module when no definition is named M, and otherwise M-k for the least
\* k >= 1 that names no definition; it writes that name into config['name']
\* and never fails for a duplicate name.
C19_DerivedNameIsFree ==
    (/\ result.op = "register" /\ strip(result.name) = <<>>
     /\ result.why # "check_config")
    => LET taken == DOMAIN result.before._definitions_by_name
           name == DerivedName(HandlerModule(result.handler_type), taken)
       IN  /\ result.config.name = name
           /\ name \notin taken
           /\ result.why # "name"
           /\ result.raised = "ok" =>
                  /\ DOMAIN manager._definitions_by_name =
                         taken \cup {name}
                  /\ manager._definitions_by_name[name].config.name = name

\* a name was derived past an explicit name of the derived form: M and M-1
\* were taken, M-1 by an explicit name, and M-2 was derived
C19_Witness ==
    /\ result.op = "register" /\ strip(result.name) = <<>>
    /\ result.raised = "ok"
    /\ result.config.name = <<"t", "-", "2">>
    /\ \E n \in DOMAIN result.before._definitions_by_name :
           result.before._definitions_by_name[n].config.name =
               <<" ", "t", "-", "1">>

\* M was free although M-1 was taken, and M was derived
C19_WitnessModuleFree ==
    /\ result.op = "register" /\ strip(result.name) = <<>>
    /\ result.raised = "ok"
    /\ result.config.name = <<"t">>
    /\ <<"t", "-", "1">> \in DOMAIN result.before._definitions_by_name

\* C20: every definition the registry holds is indexed under the name its
\* config['name'] gives, whether the name was derived or explicit, so that
\* every handler instance is cached under the name of its definition.
C20_ConfigNameIsIndexedName ==
    /\ \A n \in DOMAIN manager._definitions_by_name :
           manager._definitions_by_name[n].config.name = n
    /\ \A n \in DOMAIN manager._handlers_by_name :
           /\ n \in DOMAIN manager._definitions_by_name
           /\ manager.made[manager._handlers_by_name[n]] =
                  manager._definitions_by_name[n]

-----------------------------------------------------------------------------
(* Properties of concurrent _get_handler calls *)

\* the calls that have returned a handler
Finished == {t \in Callers : inflight[t].pc = "done" /\ inflight[t].raised = "ok"}

C22_SaveValidatesBeforeResolving ==
    (result.op = "save" /\ ~_validate(result.model)) =>
        /\ Constructed(manager) = 0
        /\ manager._handlers_by_name = result.before._handlers_by_name
        /\ manager._handlers_by_model_type =
               result.before._handlers_by_model_type
        /\ result.raised = "ValidationError"

\* the key of _definitions_by_name a definition is registered under
NameOf(self, definition) ==
    CHOOSE n \in DOMAIN self._definitions_by_name :
        self._definitions_by_name[n] = definition

\* the last call was a get_handler that constructed an instance of a
\* definition that owns several model types
InstantiatedShared ==
    /\ result.op = "get_handler" /\ result.raised = "ok"
    /\ Constructed(manager) = 1
    /\ Cardinality(manager.made[result.handler].model_types) > 1

\* the instance get_handler constructed is cached under every model type of
\* its definition, and get_handler for a record of any of these types that
\* is routed by type returns it and constructs nothing
CachedForSiblings ==
    InstantiatedShared =>
        \A mt \in manager.made[result.handler].model_types :
            /\ DictGet(manager._handlers_by_model_type, mt, NoHandler)
                   = result.handler
            /\ \A m \in {x \in Models : x.type = mt /\ ~RoutesByName(x)} :
                  /\ _get_handler(manager, m).handler = result.handler
                  /\ _get_handler(manager, m).self = manager

\* C23: when get_handler instantiates a handler from a definition that owns
\* several model types, the instance is cached under the definition's name
\* and under every model type the definition owns, and a later get_handler
\* for a sibling model type returns it without constructing another one
C23_InstanceCachedUnderNameAndSiblings ==
    /\ CachedForSiblings
    /\ InstantiatedShared =>
           DictGet(manager._handlers_by_name,
                   NameOf(manager, manager.made[result.handler]), NoHandler)
               = result.handler

\* every entry of the two instance caches of registry a is an entry of
\* registry b, with the same instance
CacheKept(a, b) ==
    /\ \A n \in DOMAIN a._handlers_by_name :
          /\ n \in DOMAIN b._handlers_by_name
          /\ b._handlers_by_name[n] = a._handlers_by_name[n]
    /\ \A mt \in DOMAIN a._handlers_by_model_type :
          /\ mt \in DOMAIN b._handlers_by_model_type
          /\ b._handlers_by_model_type[mt] = a._handlers_by_model_type[mt]

\* every definition of the registry was given a name that needs no trimming
NamesTrimmed(self) ==
    \A n \in DOMAIN self._definitions_by_name :
        self._definitions_by_name[n].config.name = n

\* C24: once a handler instance is cached under a name or a model type, no
\* later register, get_handler, save, get or delete removes the entry or
\* replaces the instance, whether the operation succeeds or fails
C24_CachedInstanceStays ==
    [][CacheKept(manager, manager')]_vars

\* the same, in registries whose definitions all have trimmed names
CachedInstanceStaysWhenTrimmed ==
    [][NamesTrimmed(manager) => CacheKept(manager, manager')]_vars

-----------------------------------------------------------------------------
(* Properties of the handler listings *)

\* the members of a list
Members(list) == {list[i] : i \in DOMAIN list}

\* C25: list_store_handlers returns exactly one entry per successfully
\* registered definition, whether the definition owns zero, one or several
\* model types: the entries are the definitions registered, none twice, and
\* their number is the number of successful register calls; so for the
\* service's storage.list_store_handlers
C25_OneEntryPerDefinition ==
    /\ result.op = "list_store_handlers" =>
          /\ Len(result.value) = result.registered
          /\ Cardinality(Members(result.value)) = Len(result.value)
          /\ Members(result.value) =
                 {manager._definitions_by_name[n] :
                      n \in DOMAIN manager._definitions_by_name}
    /\ result.op = "on_list_store_handlers" =>
          /\ Len(result.value) = result.configured
          /\ {e.config.name : e \in Members(result.value)} =
                 DOMAIN service._definitions_by_name
          /\ Cardinality({e.config.name : e \in Members(result.value)})
                 = Len(result.value)

\* two definitions were registered, one that owns no model type and one that
\* owns several, and the manager listed two entries
C25_Witness ==
    /\ result.op = "list_store_handlers"
    /\ Len(result.value) = 2
    /\ \E e \in Members(result.value) : e.model_types = {}
    /\ \E e \in Members(result.value) : Cardinality(e.model_types) > 1

\* the same for the service's listing
C25_WitnessService ==
    /\ result.op = "on_list_store_handlers"
    /\ Len(result.value) = 2
    /\ \E e \in Members(result.value) : e.model_types = <<>>
    /\ \E e \in Members(result.value) : Len(e.model_types) > 1

-----------------------------------------------------------------------------
(* Properties of the models list of a configuration *)

\* a configuration with a pattern that matches no model type name
UnmatchedPattern(config) ==
    \E i \in DOMAIN PatternsOf(config) :
        fnmatch_filter(PatternsOf(config)[i]) = {}

\* a configuration that is in order but for its models list, which is empty,
\* and whose name is not taken
EmptyModels(config, was) ==
    /\ config.is_dict /\ config.has_type /\ import_plugin(config.type) # ""
    /\ config.valid
    /\ config.has_models /\ config.models = <<>>
    /\ strip(config.name) \notin DOMAIN was._definitions_by_name

\* the names the last registration added to the index
NewNames ==
    DOMAIN service._definitions_by_name
        \ DOMAIN result.before._definitions_by_name

\* the records for which _get_handler gives an instance of the definition
ReachedBy(definition) ==
    {m \in Models :
         LET g == StorageService_get_handler(service, m)
         IN  g.raised = "ok" /\ g.self.made[g.handler] = definition}

\* C26: a registration from configuration data raises ConfigurationError and
\* registers nothing when a pattern of its models list matches no model type
\* name; with an empty models list it succeeds, its definition owns no model
\* type, and only a Host whose source is the definition's name reaches it
C26_UnmatchedPatternRefusedEmptyListAccepted ==
    (result.op = "_register_store_handler") =>
        /\ (result.config.is_dict /\ UnmatchedPattern(result.config)) =>
               /\ result.raised = "ConfigurationError"
               /\ service = result.before
        /\ EmptyModels(result.config, result.before) =>
               /\ result.raised = "ok"
               /\ NewlyOwned = {}
               /\ \E n \in NewNames :
                     /\ NewNames = {n}
                     /\ service._definitions_by_name[n].model_types = {}
                     /\ ReachedBy(service._definitions_by_name[n]) =
                            {m \in Models :
                                 m.type = Host /\ strip(m.source) = n}

\* a registration was refused for its second pattern, after its first
\* pattern had matched
C26_Witness ==
    /\ result.op = "_register_store_handler"
    /\ result.raised = "ConfigurationError" /\ result.why = "models"
    /\ Len(result.config.models) = 2
    /\ fnmatch_filter(result.config.models[1]) # {}

\* a registration with an empty models list was accepted while another
\* definition owns Host
C26_WitnessEmpty ==
    /\ result.op = "_register_store_handler" /\ result.raised = "ok"
    /\ EmptyModels(result.config, result.before)
    /\ Host \in DOMAIN service._definitions_by_model_type
    /\ \E n \in NewNames : ReachedBy(service._definitions_by_name[n]) # {}

-----------------------------------------------------------------------------
(* Properties of a handler primitive that raises *)

\* why element i of a request whose elements all build fails, "ok" when it
\* does not
ElementFailure(i) ==
    CASE result.op = "on_save" -> SaveFailure(i)
      [] result.op = "on_get" -> GetFailure(i)
      [] result.op = "on_delete" -> DeleteFailure(i)

\* the elements of a request that fail
ElementFailures == {i \in DOMAIN result.data : ElementFailure(i) # "ok"}

\* the request came to an element whose handler primitive raised
PrimitiveRaised ==
    /\ IsRequest
    /\ \A i \in DOMAIN result.data : ~FailsToBuild(i)
    /\ ElementFailures # {}
    /\ ElementFailure(First(ElementFailures)) = "HandlerError"

\* C27: when a handler primitive (save, get, delete or list) raises, the
\* request raises that error, not one of another kind, and has invoked the
\* primitive exactly once for that element: the call that raised is the last
\* handler call of the request, and nothing is returned
C27_HandlerErrorPropagatesOnce ==
    /\ PrimitiveRaised =>
           LET k == First(ElementFailures)
           IN  /\ result.raised = "HandlerError"
               /\ Len(result.calls) = k
               /\ result.calls[k].primitive = Primitive
               /\ result.calls[k].model = Built(k)
               /\ result.value = <<>>
    /\ (/\ result.op = "on_list" /\ result.type_name \in CollectionTypes
        /\ Resolves(result.before, EmptyQuery(result.type_name))
        /\ result.behaviour.raises)
       => /\ result.raised = "HandlerError"
          /\ Len(result.calls) = 1
          /\ result.calls[1].primitive = "_list"
          /\ result.value = <<>>

\* the save primitive raised for the second element of a list, after the
\* first element was saved
C27_Witness ==
    /\ PrimitiveRaised /\ result.op = "on_save"
    /\ First(ElementFailures) = 2
    /\ result.raised = "HandlerError"

\* the get, delete and list primitives raised
C27_WitnessGet ==
    PrimitiveRaised /\ result.op = "on_get" /\ result.raised = "HandlerError"

C27_WitnessDelete ==
    /\ PrimitiveRaised /\ result.op = "on_delete"
    /\ result.raised = "HandlerError"

C27_WitnessList ==
    /\ result.op = "on_list" /\ result.raised = "HandlerError"
    /\ Len(result.calls) = 1

-----------------------------------------------------------------------------
(* Properties of CommissaireService.on_message *)

\* the request of the last message names, under its own routing key, a
\* method the service does not expose
NoSuchMethod ==
    /\ bus.op = "on_message"
    /\ bus.body.text = "object" /\ bus.body.has_method
    /\ bus.body.method = rsplit_1(bus.message.routing_key).value
    /\ bus.body.method \notin Exposed

\* the response was put on the reply_to queue of the message
Replied ==
    /\ Len(bus.puts) = 1
    /\ bus.puts[1].queue = bus.message.reply_to
    /\ bus.puts[1].payload = <<"json", bus.response>>

\* C28: on_message turns every exception raised while decoding or
\* dispatching a request into the error member of the response and does not
\* let it escape: a RemoteProcedureCallError keeps its code and data, an
\* AttributeError gives METHOD_NOT_FOUND, a JSONDecodeError INVALID_JSON, any
\* other exception INVALID_REQUEST; a request that names a method that does
\* not exist is answered on its reply_to queue
C28_ExceptionsBecomeErrorMembers ==
    /\ (bus.op = "on_message" /\ bus.caught # NoError) =>
           /\ bus.escaped = ""
           /\ bus.acked
           /\ bus.response.has_error /\ ~bus.response.has_result
           /\ bus.response.error.message = bus.caught.message
           /\ IF IsRemoteProcedureCallError(bus.caught)
              THEN /\ bus.response.error.code = bus.caught.code
                   /\ bus.response.error.data = bus.caught.data
              ELSE bus.response.error.code =
                       CASE bus.caught.type = "AttributeError" ->
                                "METHOD_NOT_FOUND"
                         [] bus.caught.type = "JSONDecodeError" ->
                                "INVALID_JSON"
                         [] OTHER -> "INVALID_REQUEST"
           /\ bus.message.reply_to # "" => Replied
    /\ (bus.op = "on_message" /\ bus.body.form = "str"
        /\ bus.body.text = "unparsable") =>
           bus.caught.type = "JSONDecodeError"
    /\ NoSuchMethod =>
           /\ bus.caught.type = "AttributeError"
           /\ bus.response.error.code = "METHOD_NOT_FOUND"
           /\ bus.message.reply_to # "" => Replied

\* a request for a method that does not exist was answered on its reply_to
\* queue with METHOD_NOT_FOUND and the id of the request
C28_Witness ==
    /\ NoSuchMethod /\ Replied
    /\ bus.message.reply_to = "q"
    /\ bus.response.id = "id"
    /\ bus.response.error.code = "METHOD_NOT_FOUND"

\* an exposed method raised a RemoteProcedureCallError, a JSONDecodeError
\* and another exception, and a body did not parse
C28_WitnessRemote ==
    /\ bus.op = "on_message" /\ bus.caught.type = "StorageLookupError"
    /\ bus.response.error.code = "lookup" /\ Replied

C28_WitnessOther ==
    /\ bus.op = "on_message" /\ bus.caught.type = "KeyError"
    /\ bus.response.error.code = "INVALID_REQUEST" /\ Replied

C28_WitnessUnparsable ==
    /\ bus.op = "on_message" /\ bus.body.text = "unparsable"
    /\ bus.response.error.code = "INVALID_JSON"
    /\ bus.response.id = DefaultId /\ Replied

-----------------------------------------------------------------------------
(* Properties of WatcherService.on_message *)

\* the last message handled, the record it carried and the record published
Handled == watcher.last.op = "on_message"
Received == from_json(watcher.last.body)
Published == from_json(watcher.last.published)

\* C29: on_message runs the host check if and only if the record's
\* last_check is more than one minute in the past; when it skips the check
\* it sleeps once, longer when the address is the one seen before, and
\* publishes the record with its last_check unchanged; when it runs the
\* check it publishes the record with a new last_check, whether the check
\* returned or raised
C29_CheckIffOlderThanAMinute ==
    Handled =>
        LET age == watcher.last.utcnow - strptime(Received.last_check)
            again == watcher.last.last_address = Received.address
        IN  /\ Published.address = Received.address
            /\ IF age > Minute
               THEN /\ watcher.last.checks = <<Received.address>>
                    /\ watcher.last.sleeps = <<>>
                    /\ strptime(Published.last_check)
                           >= watcher.last.utcnow
                    /\ Published.last_check # Received.last_check
               ELSE /\ watcher.last.checks = <<>>
                    /\ ~watcher.last.check_raised
                    /\ Len(watcher.last.sleeps) = 1
                    /\ watcher.last.sleeps[1] =
                           IF again THEN LongSleep ELSE ShortSleep
                    /\ LongSleep > ShortSleep
                    /\ Published.last_check = Received.last_check

\* the check raised and the record was published with a new last_check
C29_Witness ==
    /\ Handled /\ watcher.last.check_raised
    /\ Published.last_check # Received.last_check

\* a record checked exactly one minute before was left alone, and the
\* address was the one seen before
C29_WitnessBoundary ==
    /\ Handled
    /\ watcher.last.utcnow - strptime(Received.last_check) = Minute
    /\ watcher.last.checks = <<>>
    /\ watcher.last.sleeps = <<LongSleep>>

\* a record published unchanged came round again and was checked
C29_WitnessLater ==
    /\ Handled /\ watcher.last.checks # <<>>
    /\ watcher.last.last_address # None
    /\ watcher.last.utcnow > Minute + 1

-----------------------------------------------------------------------------
(* Properties of ServiceManager.run *)

\* the workers tracked
Tracked == {pool._asyncs[j] : j \in DOMAIN pool._asyncs}

\* C30: run starts exactly process_count workers and then, in every state of
\* its loop, tracks exactly process_count results: every result taken off
\* the list is one of a finished worker and is replaced by exactly one newly
\* started worker, also when several workers are replaced in one pass
C30_TracksProcessCountWorkers ==
    /\ pool.pc = "start" =>
           /\ pool.started <= pool._process_count
           /\ Len(pool._asyncs) = pool.started
    /\ pool.pc = "loop" =>
           /\ Len(pool._asyncs) = pool._process_count
           /\ Cardinality(Tracked) = pool._process_count
           /\ pool.started = pool._process_count + Cardinality(pool.removed)
           /\ pool.removed \subseteq pool.ready
           /\ Tracked = (1..pool.started) \ pool.removed

\* two workers were replaced in one pass over the list
C30_Witness ==
    /\ pool.pc = "loop" /\ pool.replaced >= 2
    /\ Len(pool._asyncs) = pool._process_count

\* a finished worker was passed over: it stands before the position the
\* loop visits next, after the worker before it was taken off the list
C30_WitnessPassedOver ==
    /\ pool.pc = "loop" /\ pool.replaced >= 1
    /\ \E j \in 1..(pool.i - 1) :
          j <= Len(pool._asyncs) /\ pool._asyncs[j] \in pool.ready

\* every finished worker is taken off the list in the end, when a pass did
\* not: as long as the manager still starts workers
FinishedWorkerIsReplaced ==
    \A w \in 1..MaxStarted :
        (pool.pc = "loop" /\ w \in Tracked /\ w \in pool.ready)
            ~> (w \notin Tracked \/ pool.started = MaxStarted)

-----------------------------------------------------------------------------
(* Properties of the two definition indices *)

\* every model type a definition of the by-name index lists maps to that
\* definition in the by-model-type index
OwnedTypesIndexed(self) ==
    \A n \in DOMAIN self._definitions_by_name :
        \A mt \in self._definitions_by_name[n].model_types :
            /\ mt \in DOMAIN self._definitions_by_model_type
            /\ self._definitions_by_model_type[mt] =
                   self._definitions_by_name[n]

\* every entry of the by-model-type index is a definition that lists the
\* model type and is stored in the by-name index, under some name
IndexedTypesOwned(self) ==
    \A mt \in DOMAIN self._definitions_by_model_type :
        /\ mt \in self._definitions_by_model_type[mt].model_types
        /\ \E n \in DOMAIN self._definitions_by_name :
              self._definitions_by_name[n] =
                  self._definitions_by_model_type[mt]

\* the two indices agree, the name being the one the definition is indexed
\* under, whatever its config holds
IndicesAgree ==
    /\ OwnedTypesIndexed(manager) /\ IndexedTypesOwned(manager)
    /\ OwnedTypesIndexed(service) /\ IndexedTypesOwned(service)

\* C31: after any sequence of register calls every entry of the
\* by-model-type index is a definition that lists the model type and is
\* stored in the by-name index under its config['name'], and every model
\* type a definition of the by-name index lists maps to that definition
C31_DefinitionIndicesAgree ==
    /\ OwnedTypesIndexed(manager) /\ IndexedTypesOwned(manager)
    /\ \A mt \in DOMAIN manager._definitions_by_model_type :
          LET definition == manager._definitions_by_model_type[mt]
          IN  /\ definition.config.name \in DOMAIN manager._definitions_by_name
              /\ manager._definitions_by_name[definition.config.name]
                     = definition

-----------------------------------------------------------------------------
(* Properties of the instances constructed over a sequence of calls *)

\* no definition has two instances
OneInstancePerDefinition(self) ==
    \A h, k \in 1..Len(self.made) : self.made[h] = self.made[k] => h = k

\* the instances cached for a definition, under the name it is indexed
\* under and under its model types, are one object
OneObjectCached(self) ==
    \A n \in DOMAIN self._definitions_by_name :
        LET definition == self._definitions_by_name[n]
            cached == {DictGet(self._handlers_by_name, n, NoHandler)}
                      \cup {DictGet(self._handlers_by_model_type, mt, NoHandler) :
                                mt \in definition.model_types}
        IN  /\ Cardinality(cached \ {NoHandler}) <= 1
            /\ \A h \in cached \ {NoHandler} : self.made[h] = definition

\* C32: over any sequence of get_handler, save, get and delete calls at most
\* one handler instance is constructed per registered definition, reached by
\* Host source name, by model type or both, and the instances cached under
\* a definition's name and under its model types are the same object
C32_OneInstancePerDefinition ==
    OneInstancePerDefinition(manager) /\ OneObjectCached(manager)

\* the same, in registries whose definitions all have trimmed names
OneInstancePerDefinitionWhenTrimmed ==
    /\ NamesTrimmed(manager) =>
           OneInstancePerDefinition(manager) /\ OneObjectCached(manager)
    /\ NamesTrimmed(service) =>
           OneInstancePerDefinition(service) /\ OneObjectCached(service)

\* a definition reached by model type and then by name, in a registry whose
\* definitions all have trimmed names: the second call constructed nothing
ReachedBothWays ==
    /\ NamesTrimmed(manager)
    /\ result.op \in {"get_handler", "save", "get", "delete"}
    /\ result.raised = "ok" /\ Constructed(manager) = 0
    /\ \E n \in DOMAIN manager._handlers_by_name :
          \E mt \in manager._definitions_by_name[n].model_types :
              /\ manager._handlers_by_model_type[mt] =
                     manager._handlers_by_name[n]
              /\ RoutesByName(result.model)
              /\ strip(result.model.source) = n

-----------------------------------------------------------------------------
(* Properties of StoreHandlerManager and StorageService side by side *)

\* the last call constructed a handler instance in the two
ConstructedInBoth ==
    /\ result.op \in {"get_handler", "save", "get", "delete", "list"}
    /\ Constructed(manager) = 1
    /\ Len(service.made) = Len(manager.made)

C33_WitnessKeyError ==
    /\ result.op \in {"save", "get", "delete", "list"}
    /\ result.raised = "KeyError" /\ result.service.raised = "KeyError"
    /\ manager._definitions_by_name # EmptyDict

\* the two refused the same registration for an owned model type
C33_WitnessRefused ==
    /\ result.op = "register"
    /\ result.raised = "ConfigurationError" /\ result.value = "model_type"
    /\ result.service.value = "model_type"

\* the two listed a collection through the same handler
C33_WitnessList ==
    /\ result.op = "list" /\ result.raised = "ok"
    /\ Len(result.value) = MaxList /\ result.service.value = result.value

-----------------------------------------------------------------------------
(* Properties of the acknowledgement and the reply of on_message *)

\* how often on_message called message.ack() and put a reply
Acks == Cardinality({i \in DOMAIN bus.events : bus.events[i] = "ack"})
Puts == Cardinality({i \in DOMAIN bus.events : bus.events[i] = "put"})

\* the message was acknowledged once, after the reply when it asked for one
AckedOnceAfterReply ==
    /\ bus.escaped = ""
    /\ Acks = 1
    /\ bus.events[Len(bus.events)] = "ack"
    /\ bus.message.reply_to # "" => Replied /\ bus.events = <<"put", "ack">>

\* the body is no call of the method the routing key names: it is dropped
Dropped ==
    /\ bus.op = "on_message"
    /\ ~(bus.body.form = "str" /\ bus.body.text = "unparsable")
    /\ ~(/\ bus.body.text = "object" /\ bus.body.has_method
         /\ bus.body.method = rsplit_1(bus.message.routing_key).value)

\* the method was called and returned a value json.dumps cannot serialize,
\* for a message that asks for a reply
UnserializableResult ==
    /\ bus.op = "on_message"
    /\ bus.response.has_result /\ ~bus.behaviour.serializable
    /\ bus.message.reply_to # ""

\* C34: on_message acknowledges every message it receives exactly once,
\* whatever the outcome (the method returned, the method raised, the method
\* does not exist, the body was dropped), and after the reply was put on
\* the reply_to queue when the message asks for one
C34_AckedExactlyOnceAfterReply ==
    bus.op = "on_message" => AckedOnceAfterReply

\* the same, for every outcome but a result json.dumps cannot serialize
AckedOnceWhenSerializable ==
    (bus.op = "on_message" /\ ~UnserializableResult) => AckedOnceAfterReply

\* a message that asks for a reply was acknowledged after the reply was put
AckedEveryOutcome ==
    /\ bus.op = "on_message" /\ bus.message.reply_to = "q"
    /\ bus.events = <<"put", "ack">>

\* C35: on_message publishes a reply if and only if the message has a
\* reply_to property, at most one per message, and every reply holds
\* exactly one of the members result and error, also the reply to a message
\* that was dropped
C35_OneReplyWithResultOrError ==
    bus.op = "on_message" =>
        /\ Puts <= 1
        /\ Puts = 1 <=> bus.message.reply_to # ""
        /\ Puts = 1 =>
               /\ Replied
               /\ bus.response.has_result # bus.response.has_error

\* at most one reply, only to a message with reply_to, and to every such
\* message whose result can be serialized; exactly one of result and error
\* in every reply to a message that was not dropped, neither in the reply
\* to one that was
RepliesAsBuilt ==
    bus.op = "on_message" =>
        /\ Puts <= 1
        /\ Puts = 1 => bus.message.reply_to # "" /\ Replied
        /\ (bus.message.reply_to # "" /\ ~UnserializableResult) => Puts = 1
        /\ (Puts = 1 /\ ~Dropped) =>
               bus.response.has_result # bus.response.has_error
        /\ Dropped => ~bus.response.has_result /\ ~bus.response.has_error

-----------------------------------------------------------------------------
(* Properties of the records circulating in the watcher queue *)

\* how many records of the queue are for an address
Queued(self, address) ==
    Cardinality({i \in DOMAIN self.queue :
                     from_json(self.queue[i]).address = address})

\* where in the calls of the last on_message a call was made
Positions(event) ==
    {i \in DOMAIN watcher.last.events : watcher.last.events[i] = event}

\* the last on_message acknowledged once, first of all, and published once,
\* last of all, a record for the address it received
AckedThenPublished ==
    watcher.last.op = "on_message" =>
        /\ Positions("ack") = {1}
        /\ Positions("publish") = {Len(watcher.last.events)}
        /\ \A i \in Positions("_check") : i > 1
        /\ from_json(watcher.last.published).address =
               from_json(watcher.last.body).address
        /\ watcher.queue[Len(watcher.queue)] = watcher.last.published

\* how long ago the record of a body was last checked
Age(body) == watcher.now - strptime(from_json(body).last_check)

\* no record waits for its check longer than a minute and one long sleep
\* for each record of the queue
LookedAtInTime ==
    \A i \in DOMAIN watcher.queue :
        Age(watcher.queue[i]) <= Minute + Len(watcher.queue) * LongSleep

C36_WitnessSkipped ==
    /\ watcher.last.op = "on_message"
    /\ watcher.last.events = <<"ack", "sleep", "publish">>
    /\ watcher.queue[Len(watcher.queue)] = watcher.last.body

\* a record checked by this service was checked a second time
C36_WitnessAgain ==
    /\ watcher.last.op = "on_message" /\ watcher.last.checks # <<>>
    /\ strptime(from_json(watcher.last.body).last_check) > Minute + 1

-----------------------------------------------------------------------------
(* Properties of ClusterExecService._execute *)

\* the addresses of a list, and whether none is in it twice
AddressesOf(list) == {list[i] : i \in DOMAIN list}
NoRepeat(list) == \A i, j \in DOMAIN list : list[i] = list[j] => i = j

\* a saved record lists no address twice, and none both as in process and
\* as finished
CleanRecord(record) ==
    /\ NoRepeat(record.in_process) /\ NoRepeat(record.finished)
    /\ AddressesOf(record.in_process) \cap AddressesOf(record.finished) = {}

\* the record saved last
LastSave == job.saves[Len(job.saves)]

\* _execute returned and its final save was taken
FinalSaved == job.pc = "done" /\ job.run.final_save = "ok"

\* the hosts are taken in hostset order, one at a time; every saved record
\* is clean; a run in which every host succeeds ends with status finished,
\* nothing in process and every address finished; a run in which the remote
\* command fails stops at that host and ends with status failed
ExecutesInOrder ==
    /\ Len(job.attempted) <= Len(job.hostset)
    /\ \A k \in DOMAIN job.attempted : job.attempted[k] = job.hostset[k]
    /\ Len(job.model_instance.in_process) <= 1
    /\ \A k \in DOMAIN job.saves : CleanRecord(job.saves[k])
    /\ (FinalSaved /\ job.end_status = "finished") =>
           /\ LastSave.status = "finished"
           /\ LastSave.in_process = <<>>
           /\ AddressesOf(LastSave.finished) = AddressesOf(job.hostset)
           /\ job.attempted = job.hostset
    /\ job.end_status = "failed" =>
           /\ job.pc \in {"final_save", "done"}
           /\ job.outcomes[job.i] = "command_raises"
           /\ job.attempted = SubSeq(job.hostset, 1, job.i)
           /\ FinalSaved => LastSave.status = "failed"

\* C37: _execute takes the hosts one at a time in hostset order; at every
\* save of the operation record no address is both in in_process and in the
\* finished list and none is twice in either; when every host succeeds the
\* final record has status finished, an empty in_process and every hostset
\* address finished; when the remote command fails on a host the loop stops
\* there and the final record is saved with status failed
C37_HostsOneAtATimeInOrder == ExecutesInOrder

\* the same, for a hostset that holds no address twice
InOrderWhenNoRepeat ==
    NoRepeat(job.hostset) => ExecutesInOrder

\* every host of a hostset of two succeeded
AllHostsSucceeded ==
    /\ FinalSaved /\ job.end_status = "finished"
    /\ NoRepeat(job.hostset) /\ Len(job.hostset) = MaxHosts
    /\ Len(job.saves) = 2 + 2 * MaxHosts

\* the remote command failed on the first host of two
StoppedAtFailure ==
    /\ FinalSaved /\ job.end_status = "failed"
    /\ NoRepeat(job.hostset) /\ Len(job.hostset) = 2
    /\ job.attempted = <<job.hostset[1]>>
    /\ LastSave.in_process = <<job.hostset[1]>>

====
